---- MODULE Spec2Model ----
(***************************************************************************)
(* The Invisible Wall relationship simulator: the emotional state engine   *)
(* (games/invisible-wall/state.py and its near-duplicate                   *)
(* skills/invisible-wall-state/scripts/state_engine.py), the control-tag   *)
(* parser and the turn handler of the game client                          *)
(* (games/invisible-wall/client.py).                                       *)
(*                                                                         *)
(* Numbers.  The transition tables hold the fractional deltas -0.5 and     *)
(* +0.5, and the CLI variant stores the sums as they are, so a dimension   *)
(* can hold x.5.  Every dimension value and every delta v is therefore     *)
(* represented by the integer U * v (U = 2): halves are exact, as they are *)
(* in Python's floats.  warmth = 3 is written 3 * U.                       *)
(*                                                                         *)
(* Text.  A string is a sequence of one-character strings.  A CJK          *)
(* character is one unit of the sequence, written as its pinyin syllable   *)
(* ("dui","bu","qi" is the three-character word of state.py line 94).      *)
(***************************************************************************)
EXTENDS Integers, Sequences, FiniteSets, TLC

VARIABLES
    variant,    \* which engine the engine specifications drive: "game" | "cli"
    es,         \* EmotionalState of state.py (the game's engine)
    cs,         \* EmotionalState of state_engine.py (the CLI's engine)
    now,        \* the clock read by datetime.now()
    steps,      \* operations performed so far
    last,       \* the last operation: its inputs and what it returned
    arrivals,   \* every content a retraction_seen event remembered, in order
    raw,        \* the text handed to _parse_control_tags
    parsed,     \* what _parse_control_tags returned for raw
    session,    \* the InvisibleWallGame object, but for its state (which is es)
    crashed,    \* the exception that escaped send_message, or "none"
    file,       \* the persisted state file: absent, or its text
    tables      \* the module-level dicts TRANSITIONS of state.py and state_engine.py

vars ==
    <<variant, es, cs, now, steps, last, arrivals, raw, parsed, session, crashed,
      file, tables>>

(***************************************************************************)
(* Bounds of the model.                                                    *)
(***************************************************************************)
MaxRetractions == 6    \* operations per run of the retraction-memory specification
MaxChunks == 3         \* pieces a text given to the parser is made of
MaxTurns == 2          \* send_message calls per session
MaxWords == 3          \* phrases a classified input is made of
MaxClamps == 2         \* clamp() calls in a row on one state
MaxOps == 3            \* operations on the state file per run
MaxParams == 3         \* parameters of a state or typing tag
MaxHistoryTurns == 11  \* send_message calls of a long session
MaxPairSteps == 2      \* events given to the two engines side by side

HistoryWindow == 20    \* self.history[-20:]

U == 2

(* the state file of a fresh installation: there is none *)
NoFile == [exists |-> FALSE, text |-> <<>>]

Max(a, b) == IF a >= b THEN a ELSE b
Min(a, b) == IF a <= b THEN a ELSE b

Rep(c, n) == [i \in 1..n |-> c]

(* Python's `sub in s` for a non-empty sub. *)
Contains(s, sub) ==
    \E i \in 1..(Len(s) - Len(sub) + 1) : SubSeq(s, i, i + Len(sub) - 1) = sub

(* Python's int(x) on a number held in halves: truncation toward zero. *)
PyInt(x) == IF x >= 0 THEN (x \div U) * U ELSE -(((-x) \div U) * U)

IsWhole(x) == x % U = 0

(***************************************************************************)
(* EmotionalState                                                          *)
(***************************************************************************)
DimSet == {"warmth", "tension", "trust", "disappointment", "need", "rhythm"}

Lo(d) == IF d = "warmth" THEN -5 * U ELSE 0
Hi(d) == IF d = "warmth" THEN 5 * U ELSE 10 * U

(* A list-valued attribute.  A directive can overwrite it with an integer  *)
(* (client.py line 674), so the value carries its kind.                    *)
ListVal(items) == [kind |-> "list", items |-> items, int |-> 0]
IntVal(n) == [kind |-> "int", items |-> <<>>, int |-> n]
NoneVal == [kind |-> "none", items |-> <<>>, int |-> 0]
TimeVal(t) == [kind |-> "time", items |-> <<>>, int |-> t]

(* state.py EmotionalState(): the dataclass defaults.  shadowed is the set *)
(* of the non-field attributes (methods, __doc__) that setattr has hidden  *)
(* behind an integer instance attribute, each by its spelled name.         *)
EmotionalState ==
    [warmth |-> 0, tension |-> 0, trust |-> 5 * U, disappointment |-> 0,
     need |-> 3 * U, rhythm |-> 5 * U,
     retraction_memory |-> ListVal(<<>>),
     last_interaction |-> NoneVal,
     shadowed |-> {}]

(* state_engine.py EmotionalState(): defaults and __post_init__. *)
CliEmotionalState ==
    [warmth |-> 0, tension |-> 0, trust |-> 5 * U, disappointment |-> 0,
     need |-> 3 * U, rhythm |-> 5 * U,
     consecutive_days |-> 0,
     last_interaction |-> NoneVal,
     retraction_memory |-> <<>>,
     disappointment_events |-> <<>>]

ClampMutCopyPaste(s) ==
    [s EXCEPT !.warmth = Max(-5 * U, Min(5 * U, @)),
              !.tension = Max(0, Min(10 * U, s.warmth)),
              !.trust = Max(0, Min(10 * U, @)),
              !.disappointment = Max(0, Min(10 * U, @)),
              !.need = Max(0, Min(10 * U, @)),
              !.rhythm = Max(0, Min(10 * U, @))]

(* EmotionalState.clamp, the same text in both variants. *)
clamp(s) ==
    [s EXCEPT !.warmth = Max(-5 * U, Min(5 * U, @)),
              !.tension = Max(0, Min(10 * U, @)),
              !.trust = Max(0, Min(10 * U, @)),
              !.disappointment = Max(0, Min(10 * U, @)),
              !.need = Max(0, Min(10 * U, @)),
              !.rhythm = Max(0, Min(10 * U, @))]

InRange(s) == \A d \in DimSet : Lo(d) <= s[d] /\ s[d] <= Hi(d)

(***************************************************************************)
(* Transition tables (deltas in halves: 1 is U, -0.5 is -1)                *)
(***************************************************************************)
TRANSITIONS ==
    [consistent_daily |-> [warmth |-> 1 * U, trust |-> 1 * U, rhythm |-> 1 * U],
     remembered_detail |-> [warmth |-> 2 * U, trust |-> 1 * U, need |-> 1 * U],
     patient_waiting |-> [warmth |-> 1 * U, rhythm |-> 1 * U],
     shared_personal |-> [trust |-> 1 * U, warmth |-> 1 * U],
     natural_rhythm |-> [trust |-> 1 * U, rhythm |-> 1 * U],
     showed_care |-> [warmth |-> 1 * U, need |-> 1 * U],
     eager_push |-> [warmth |-> -1 * U, tension |-> 2 * U, rhythm |-> -1 * U],
     disappeared_24h |-> [warmth |-> -1 * U, disappointment |-> 1 * U],
     obvious_dismissal |-> [warmth |-> -2 * U, trust |-> -1 * U],
     inconsistent_story |-> [trust |-> -2 * U],
     forgot_detail |-> [disappointment |-> 2 * U, need |-> -1 * U],
     missed_emotion |-> [disappointment |-> 1 * U],
     self_centered |-> [disappointment |-> 1 * U, warmth |-> -1 * U],
     said_ambiguous |-> [tension |-> 2 * U],
     retraction_seen |-> [tension |-> 2 * U],
     asked_feelings |-> [tension |-> 1 * U],
     confession |-> [tension |-> 5 * U],
     normal_chat |-> [tension |-> -1, rhythm |-> 1]]

CLI_TRANSITIONS ==
    [consistent_daily |-> [warmth |-> 1 * U, trust |-> 1 * U, rhythm |-> 1 * U],
     remembered_detail |-> [warmth |-> 2 * U, trust |-> 1 * U, need |-> 1 * U],
     patient_waiting |-> [warmth |-> 1 * U, rhythm |-> 1 * U],
     shared_personal |-> [trust |-> 1 * U, warmth |-> 1 * U],
     natural_rhythm |-> [trust |-> 1 * U, rhythm |-> 1 * U],
     showed_care |-> [warmth |-> 1 * U, need |-> 1 * U],
     eager_push |-> [warmth |-> -1 * U, tension |-> 2 * U, rhythm |-> -1 * U],
     disappeared_24h |-> [warmth |-> -1 * U, disappointment |-> 1 * U],
     obvious_dismissal |-> [warmth |-> -2 * U, trust |-> -1 * U],
     inconsistent_story |-> [trust |-> -2 * U],
     forgot_detail |-> [disappointment |-> 2 * U, need |-> -1 * U],
     missed_emotion |-> [disappointment |-> 1 * U],
     self_centered |-> [disappointment |-> 1 * U, warmth |-> -1 * U],
     instant_reply_always |-> [trust |-> 0, rhythm |-> -1 * U],
     said_ambiguous |-> [tension |-> 2 * U],
     retraction_seen |-> [tension |-> 2 * U],
     asked_feelings |-> [tension |-> 1 * U],
     confession |-> [tension |-> 5 * U],
     long_silence |-> [tension |-> -1 * U],
     normal_chat |-> [tension |-> -1, rhythm |-> 1],
     time_passed_day |-> [disappointment |-> -1]]

(* the two tables as the modules define them *)
Tables == [game |-> TRANSITIONS, cli |-> CLI_TRANSITIONS]

DictCopyMutAlias(dct) == [items |-> dct, alias |-> TRUE]

(* dict.copy(): a new dict with the same items; alias tells whether the    *)
(* result is the object it was made from                                   *)
DictCopy(dct) == [items |-> dct, alias |-> FALSE]

(* The fixed keyword list of apply_event: 喜欢 想你 想见 在一起 讨厌 烦 对不起 *)
emotional_keywords ==
    {<<"xi", "huan">>, <<"xiang", "ni">>, <<"xiang", "jian">>,
     <<"zai", "yi", "qi">>, <<"tao", "yan">>, <<"fan">>,
     <<"dui", "bu", "qi">>}

AnyEmotionalKeyword(content) == \E kw \in emotional_keywords : Contains(content, kw)

ChangesMutNoBonus(table, event, content) == table[event]

(* changes = TRANSITIONS[event].copy(), plus the keyword bonus. *)
Changes(table, event, content) ==
    IF event = "retraction_seen" /\ content # <<>> /\ AnyEmotionalKeyword(content)
    THEN [table[event] EXCEPT !.tension = @ + 2 * U]
    ELSE table[event]

(* the table after apply_event: line 95 of state.py (117 of               *)
(* state_engine.py) writes the keyword bonus into changes, which is the    *)
(* table's own entry only if changes is that object                        *)
TableAfter(table, event, content) ==
    IF event \in DOMAIN table /\ DictCopy(table[event]).alias
    THEN [table EXCEPT ![event] = Changes(table, event, content)]
    ELSE table

(* content[:50] *)
Truncate(content) == SubSeq(content, 1, Min(50, Len(content)))

(* lst[-5:] *)
LastFive(lst) == SubSeq(lst, Max(1, Len(lst) - 4), Len(lst))

RememberMutNoCap(lst, item) == Append(lst, item)

(* append the record, then keep the last five *)
Remember(lst, item) == LastFive(Append(lst, item))

(* state.py line 111: int(current + delta) *)
GameDelta(current, delta) == PyInt(current + delta)

(* state_engine.py line 134: current + delta *)
CliDelta(current, delta) == current + delta

(* "for attr, delta in changes.items(): setattr(...)" of state.py *)
ApplyChanges(s, changes) ==
    [a \in DOMAIN s |->
        IF a \in DOMAIN changes THEN GameDelta(s[a], changes[a]) ELSE s[a]]

CliApplyChanges(s, changes) ==
    [a \in DOMAIN s |->
        IF a \in DOMAIN changes THEN CliDelta(s[a], changes[a]) ELSE s[a]]


(***************************************************************************)
(* Text: what the regular expressions and the string methods of client.py  *)
(* do, character by character.                                             *)
(***************************************************************************)
Digits == {"0", "1", "2", "3", "4", "5", "6", "7", "8", "9"}

DigitVal ==
    ("0" :> 0) @@ ("1" :> 1) @@ ("2" :> 2) @@ ("3" :> 3) @@ ("4" :> 4) @@
    ("5" :> 5) @@ ("6" :> 6) @@ ("7" :> 7) @@ ("8" :> 8) @@ ("9" :> 9)

Whitespace == {" ", "\n"}

(* The characters of the model's texts that \w does not match; every other *)
(* unit (a letter, a digit, "_", a CJK character) is a word character.     *)
NonWordChars == {"<", "!", "-", ">", ":", "=", ",", "+", ".", "'"} \cup Whitespace

IsDigit(c) == c \in Digits
IsWord(c) == c \notin NonWordChars
IsNotGt(c) == c # ">"

SetMin(S) == CHOOSE x \in S : \A y \in S : x <= y

StartsAt(t, i, lit) ==
    /\ i + Len(lit) - 1 <= Len(t)
    /\ SubSeq(t, i, i + Len(lit) - 1) = lit

Close == <<"-", "-", ">">>

(* The control tag patterns, client.py lines 41-46: the literal opener,    *)
(* the class of the captured group (one or more characters of it), "-->".  *)
TYPING_PATTERN == [open |-> <<"<", "!", "-", "-", "t", "y", "p", "i", "n", "g", ":">>, class |-> "notgt"]
PAUSE_PATTERN == [open |-> <<"<", "!", "-", "-", "p", "a", "u", "s", "e", ":">>, class |-> "digit"]
STATE_PATTERN == [open |-> <<"<", "!", "-", "-", "s", "t", "a", "t", "e", ":">>, class |-> "notgt"]
PRESENCE_PATTERN == [open |-> <<"<", "!", "-", "-", "p", "r", "e", "s", "e", "n", "c", "e", ":">>, class |-> "notgt"]
READ_PATTERN == [open |-> <<"<", "!", "-", "-", "r", "e", "a", "d", ":">>, class |-> "notgt"]
PACE_PATTERN == [open |-> <<"<", "!", "-", "-", "p", "a", "c", "e", ":">>, class |-> "word"]

InClass(class, c) ==
    IF class = "digit" THEN IsDigit(c)
    ELSE IF class = "word" THEN IsWord(c)
    ELSE IsNotGt(c)

(* The end of the match of pattern p that starts at position i of t, or 0  *)
(* when p does not match there.  The group is greedy; "-->" must follow.   *)
(* For [^>]+ the "-->" can only be the one that ends at the first ">"      *)
(* after the opener (the group cannot hold a ">"), and the group gives     *)
(* back the two "-" it swallowed; \d+ and \w+ cannot swallow a "-".        *)
MatchEnd(p, t, i) ==
    IF ~StartsAt(t, i, p.open) THEN 0
    ELSE LET b == i + Len(p.open)
             stops == {j \in b..Len(t) : ~InClass(p.class, t[j])}
             stop == IF stops = {} THEN Len(t) + 1 ELSE SetMin(stops)
         IN  IF p.class = "notgt"
             THEN IF stop <= Len(t) /\ stop - 3 >= b
                      /\ t[stop - 2] = "-" /\ t[stop - 1] = "-"
                  THEN stop ELSE 0
             ELSE IF stop > b /\ StartsAt(t, stop, Close)
                  THEN stop + 2 ELSE 0

(* pattern.search(t): the leftmost match, as the captured group. *)
Search(p, t) ==
    LET starts == {i \in 1..Len(t) : MatchEnd(p, t, i) > 0}
    IN  IF starts = {} THEN [found |-> FALSE, group |-> <<>>]
        ELSE LET i == SetMin(starts)
             IN  [found |-> TRUE,
                  group |-> SubSeq(t, i + Len(p.open), MatchEnd(p, t, i) - 3)]

RECURSIVE SubFrom(_, _, _)
SubFrom(p, t, i) ==
    IF i > Len(t) THEN <<>>
    ELSE LET e == MatchEnd(p, t, i)
         IN  IF e > 0 THEN SubFrom(p, t, e + 1)
             ELSE <<t[i]>> \o SubFrom(p, t, i + 1)

(* pattern.sub("", t): every match, left to right, removed in one pass. *)
Sub(p, t) == SubFrom(p, t, 1)

(* str.strip() *)
Strip(t) ==
    LET keep == {i \in 1..Len(t) : t[i] \notin Whitespace}
    IN  IF keep = {} THEN <<>>
        ELSE SubSeq(t, SetMin(keep), CHOOSE x \in keep : \A y \in keep : y <= x)

(* str.split(sep) for a one-character sep *)
RECURSIVE Split(_, _)
Split(t, sep) ==
    LET at == {i \in 1..Len(t) : t[i] = sep}
    IN  IF at = {} THEN <<t>>
        ELSE <<SubSeq(t, 1, SetMin(at) - 1)>>
             \o Split(SubSeq(t, SetMin(at) + 1, Len(t)), sep)

(* key, val = param.split("=", 1), for a param that holds an "=" *)
SplitOnce(t, sep) ==
    LET i == SetMin({k \in 1..Len(t) : t[k] = sep})
    IN  [key |-> SubSeq(t, 1, i - 1), val |-> SubSeq(t, i + 1, Len(t))]

RECURSIVE DigitsValue(_)
DigitsValue(ds) ==
    IF ds = <<>> THEN 0
    ELSE 10 * DigitsValue(SubSeq(ds, 1, Len(ds) - 1)) + DigitVal[ds[Len(ds)]]

SelectDigits(t) == SelectSeq(t, IsDigit)

(* int(s): optional surrounding whitespace, an optional sign, then digits, *)
(* single underscores allowed between digits.  ok = FALSE is ValueError.   *)
PyParseInt(s) ==
    LET t == Strip(s)
        signed == t # <<>> /\ t[1] \in {"+", "-"}
        body == IF signed THEN SubSeq(t, 2, Len(t)) ELSE t
        wellFormed ==
            /\ body # <<>>
            /\ \A k \in 1..Len(body) : body[k] \in Digits \cup {"_"}
            /\ body[1] \in Digits /\ body[Len(body)] \in Digits
            /\ \A k \in 1..(Len(body) - 1) : ~(body[k] = "_" /\ body[k + 1] = "_")
        magnitude == DigitsValue(SelectDigits(body))
    IN  IF ~wellFormed THEN [ok |-> FALSE, val |-> 0]
        ELSE [ok |-> TRUE,
              val |-> IF signed /\ t[1] = "-" THEN -magnitude ELSE magnitude]

(* The names the model's texts use, spelled out. *)
Spell ==
    [warmth |-> <<"w", "a", "r", "m", "t", "h">>,
     tension |-> <<"t", "e", "n", "s", "i", "o", "n">>,
     trust |-> <<"t", "r", "u", "s", "t">>,
     disappointment |-> <<"d", "i", "s", "a", "p", "p", "o", "i", "n", "t", "m", "e", "n", "t">>,
     need |-> <<"n", "e", "e", "d">>,
     rhythm |-> <<"r", "h", "y", "t", "h", "m">>,
     retraction_memory |-> <<"r", "e", "t", "r", "a", "c", "t", "i", "o", "n", "_", "m", "e", "m", "o", "r", "y">>,
     last_interaction |-> <<"l", "a", "s", "t", "_", "i", "n", "t", "e", "r", "a", "c", "t", "i", "o", "n">>,
     clamp |-> <<"c", "l", "a", "m", "p">>,
     to_dict |-> <<"t", "o", "_", "d", "i", "c", "t">>,
     from_dict |-> <<"f", "r", "o", "m", "_", "d", "i", "c", "t">>,
     save |-> <<"s", "a", "v", "e">>,
     load |-> <<"l", "o", "a", "d">>,
     duration |-> <<"d", "u", "r", "a", "t", "i", "o", "n">>,
     mood |-> <<"m", "o", "o", "d">>,
     normal |-> <<"n", "o", "r", "m", "a", "l">>,
     slow |-> <<"s", "l", "o", "w">>,
     fast |-> <<"f", "a", "s", "t">>,
     hesitant |-> <<"h", "e", "s", "i", "t", "a", "n", "t">>]

W_dunder_doc == <<"_", "_", "d", "o", "c", "_", "_">>
W_dunder_class == <<"_", "_", "c", "l", "a", "s", "s", "_", "_">>
W_dunder_dict == <<"_", "_", "d", "i", "c", "t", "_", "_">>

(* controls["state_updates"][key] = value: a dict keeps the place of the   *)
(* first insertion of a key and the value of the last.                     *)
DictSet(d, key, val) ==
    IF \E i \in 1..Len(d) : d[i].key = key
    THEN [i \in 1..Len(d) |-> IF d[i].key = key THEN [key |-> key, val |-> val] ELSE d[i]]
    ELSE Append(d, [key |-> key, val |-> val])

(* client.py lines 444-454: the last well-formed duration=<int> of the     *)
(* first typing tag; none is the initial None.                             *)
RECURSIVE TypingDuration(_, _)
TypingDuration(params, acc) ==
    IF params = <<>> THEN acc
    ELSE LET param == Head(params)
             kv == SplitOnce(param, "=")
             n == PyParseInt(kv.val)
         IN  IF "=" \in {param[i] : i \in 1..Len(param)}
                  /\ Strip(kv.key) = Spell.duration /\ n.ok
             THEN TypingDuration(Tail(params), IntVal(n.val))
             ELSE TypingDuration(Tail(params), acc)

RECURSIVE StateUpdatesMutAbort(_, _)
StateUpdatesMutAbort(params, acc) ==
    IF params = <<>> THEN acc
    ELSE IF "=" \in {Head(params)[i] : i \in 1..Len(Head(params))}
            /\ PyParseInt(SplitOnce(Head(params), "=").val).ok
    THEN StateUpdatesMutAbort(Tail(params),
            DictSet(acc, Strip(SplitOnce(Head(params), "=").key),
                    PyParseInt(SplitOnce(Head(params), "=").val).val))
    ELSE acc

(* client.py lines 462-471: every key=<int> of the first state tag *)
RECURSIVE StateUpdates(_, _)
StateUpdates(params, acc) ==
    IF params = <<>> THEN acc
    ELSE LET param == Head(params)
             kv == SplitOnce(param, "=")
             n == PyParseInt(kv.val)
         IN  IF "=" \in {param[i] : i \in 1..Len(param)} /\ n.ok
             THEN StateUpdates(Tail(params), DictSet(acc, Strip(kv.key), n.val))
             ELSE StateUpdates(Tail(params), acc)

(* client.py lines 476-483: the six substitutions in their order, then strip *)
RemoveTags(text) ==
    Strip(Sub(PACE_PATTERN,
          Sub(READ_PATTERN,
          Sub(PRESENCE_PATTERN,
          Sub(STATE_PATTERN,
          Sub(PAUSE_PATTERN,
          Sub(TYPING_PATTERN, text)))))))

(* InvisibleWallGame._parse_control_tags, client.py lines 430-485 *)
_parse_control_tags(text) ==
    LET typing_match == Search(TYPING_PATTERN, text)
        pace_match == Search(PACE_PATTERN, text)
        state_match == Search(STATE_PATTERN, text)
    IN  [clean |-> RemoveTags(text),
         controls |->
            [typing_duration |->
                IF typing_match.found
                THEN TypingDuration(Split(typing_match.group, ","), NoneVal)
                ELSE NoneVal,
             pauses |-> <<>>,
             pace |-> IF pace_match.found THEN pace_match.group ELSE Spell.normal,
             state_updates |->
                IF state_match.found
                THEN StateUpdates(Split(state_match.group, ","), <<>>)
                ELSE <<>>]]

(***************************************************************************)
(* apply_event, game variant (state.py lines 85-116).  It returns the new  *)
(* state, the returned value and the exception it raised, if any: a        *)
(* directive may have replaced retraction_memory by an integer (append     *)
(* then raises AttributeError before anything is written) or hidden the    *)
(* clamp method behind an integer (clamp() then raises TypeError after the *)
(* deltas and last_interaction were written).                              *)
(***************************************************************************)
UnknownEventMutTouch(state, t) ==
    [state |-> [state EXCEPT !.last_interaction = TimeVal(t)],
     ret |-> "error", raised |-> "none"]

StampMutKeep(state, t) == state

(* state.last_interaction = datetime.now().isoformat(): state.py line 113, *)
(* state_engine.py line 137                                                *)
Stamp(state, t) == [state EXCEPT !.last_interaction = TimeVal(t)]

(* return {"error": ...}: state.py lines 87-88 *)
UnknownEvent(state, t) == [state |-> state, ret |-> "error", raised |-> "none"]

ApplyEventIn(table, state, event, content, t) ==
    IF event \notin DOMAIN table
    THEN UnknownEvent(state, t)
    ELSE LET remembers == event = "retraction_seen" /\ content # <<>>
             changes == Changes(table, event, content)
         IN  IF remembers /\ state.retraction_memory.kind # "list"
             THEN [state |-> state, ret |-> "none", raised |-> "AttributeError"]
             ELSE LET s1 == IF remembers
                            THEN [state EXCEPT !.retraction_memory =
                                    ListVal(Remember(@.items,
                                        [content |-> Truncate(content),
                                         timestamp |-> t]))]
                            ELSE state
                      s2 == ApplyChanges(s1, changes)
                      s3 == Stamp(s2, t)
                  IN  IF Spell.clamp \in s3.shadowed
                      THEN [state |-> s3, ret |-> "none", raised |-> "TypeError"]
                      ELSE [state |-> clamp(s3), ret |-> "changes",
                            raised |-> "none"]

(* apply_event of state.py with the table as the module defines it *)
apply_event(state, event, content, t) ==
    ApplyEventIn(TRANSITIONS, state, event, content, t)

(* special_states of state_engine.py lines 143-149, on the clamped state *)
SpecialStates(s) ==
    (IF s.disappointment >= 7 * U THEN {"distancing_mode"} ELSE {})
    \cup (IF s.tension >= 8 * U THEN {"high_alert"} ELSE {})
    \cup (IF s.warmth <= -3 * U THEN {"cold_mode"} ELSE {})

(***************************************************************************)
(* apply_event, CLI variant (state_engine.py lines 96-158)                 *)
(***************************************************************************)
CliApplyEventIn(table, state, event, content, t) ==
    IF event \notin DOMAIN table
    THEN [state |-> state, ret |-> "error", special_states |-> {}]
    ELSE LET remembers == event = "retraction_seen" /\ content # <<>>
             changes == Changes(table, event, content)
             s1 == IF remembers
                   THEN [state EXCEPT !.retraction_memory =
                           Remember(@, [content |-> Truncate(content),
                                        timestamp |-> t,
                                        tension_at_time |-> state.tension])]
                   ELSE state
             s2 == CliApplyChanges(s1, changes)
             s3 == clamp(Stamp(s2, t))
         IN  [state |-> s3, ret |-> "changes",
              special_states |-> SpecialStates(s3)]

(* apply_event of state_engine.py with the table as the module defines it *)
cli_apply_event(state, event, content, t) ==
    CliApplyEventIn(CLI_TRANSITIONS, state, event, content, t)

DefaultControls ==
    [typing_duration |-> NoneVal, pauses |-> <<>>, pace |-> Spell.normal,
     state_updates |-> <<>>]

NotParsed == [done |-> FALSE, clean |-> <<>>, controls |-> DefaultControls]

(***************************************************************************)
(* InvisibleWallGame, client.py                                            *)
(***************************************************************************)
NoRetraction == [set |-> FALSE, content |-> <<>>, visible_ms |-> 0]

(* __init__, lines 95-103 (self.state is the variable es) *)
InvisibleWallGame ==
    [messages |-> <<>>,
     history |-> <<>>,
     pending_text |-> <<>>,
     pending_start |-> FALSE,
     last_retraction |-> NoRetraction,
     online_status |-> "online",
     last_consultant_message |-> "empty"]

(* 喜欢你 爱你 在一起 表白 做我女朋友 *)
confession_keywords ==
    {<<"xi", "huan", "ni">>, <<"ai", "ni">>, <<"zai", "yi", "qi">>,
     <<"biao", "bai">>, <<"zuo", "wo", "nv", "peng", "you">>}

(* 想你 想见你 晚安 早安 吃饭了吗 在干嘛 *)
ambiguous_keywords ==
    {<<"xiang", "ni">>, <<"xiang", "jian", "ni">>, <<"wan", "an">>,
     <<"zao", "an">>, <<"chi", "fan2", "le", "ma">>, <<"zai", "gan", "ma2">>}

DetectMutAmbiguousFirst(user_input) ==
    IF \E kw \in ambiguous_keywords : Contains(user_input, kw) THEN "ambiguous"
    ELSE IF \E kw \in confession_keywords : Contains(user_input, kw) THEN "confession"
    ELSE "normal"

(* lines 498-510 *)
_detect_event_type(user_input) ==
    IF \E kw \in confession_keywords : Contains(user_input, kw) THEN "confession"
    ELSE IF \E kw \in ambiguous_keywords : Contains(user_input, kw) THEN "ambiguous"
    ELSE "normal"

FieldKeys ==
    {Spell[d] : d \in DimSet} \cup {Spell.retraction_memory, Spell.last_interaction}

MethodKeys == {Spell.clamp, Spell.to_dict, Spell.from_dict, Spell.save, Spell.load}

(* attributes every object has: __doc__ can be set, __class__ and __dict__ *)
(* refuse an integer with TypeError                                        *)
WritableDunders == {W_dunder_doc}
RefusingDunders == {W_dunder_class, W_dunder_dict}

(* hasattr(self.state, key), line 673 *)
HasAttr(key) ==
    key \in FieldKeys \cup MethodKeys \cup WritableDunders \cup RefusingDunders

(* setattr(self.state, key, val), line 674, for a key that accepts it *)
SetAttr(state, key, val) ==
    IF \E d \in DimSet : Spell[d] = key
    THEN [state EXCEPT ![CHOOSE d \in DimSet : Spell[d] = key] = val * U]
    ELSE IF key = Spell.retraction_memory
    THEN [state EXCEPT !.retraction_memory = IntVal(val)]
    ELSE IF key = Spell.last_interaction
    THEN [state EXCEPT !.last_interaction = IntVal(val)]
    ELSE [state EXCEPT !.shadowed = @ \cup {key}]

(* lines 672-674: the loop over state_updates; setattr may raise *)
RECURSIVE SetAttrs(_, _)
SetAttrs(state, updates) ==
    IF updates = <<>> THEN [state |-> state, raised |-> "none"]
    ELSE LET key == Head(updates).key
             val == Head(updates).val
         IN  IF ~HasAttr(key) THEN SetAttrs(state, Tail(updates))
             ELSE IF key \in RefusingDunders
             THEN [state |-> state, raised |-> "TypeError"]
             ELSE SetAttrs(SetAttr(state, key, val), Tail(updates))

(* lines 671-675: apply the state updates, then self.state.clamp() *)
ApplyStateUpdates(state, updates) ==
    LET r == SetAttrs(state, updates)
    IN  IF r.raised # "none" THEN r
        ELSE IF Spell.clamp \in r.state.shadowed
        THEN [state |-> r.state, raised |-> "TypeError"]
        ELSE [state |-> clamp(r.state), raised |-> "none"]

(***************************************************************************)
(* JSON: what json.dumps(..., indent=2, ensure_ascii=False) writes and     *)
(* json.loads reads, character by character.  A value is a number (held in *)
(* halves; the model's states do not tell 6 from 6.0, as Python's == does  *)
(* not), null, a string, a list, or a dict (its pairs in insertion order). *)
(***************************************************************************)
JNum(h) == [kind |-> "num", n |-> h, s |-> <<>>, items |-> <<>>]
JNull == [kind |-> "null", n |-> 0, s |-> <<>>, items |-> <<>>]
JStr(s) == [kind |-> "str", n |-> 0, s |-> s, items |-> <<>>]
JList(items) == [kind |-> "list", n |-> 0, s |-> <<>>, items |-> items]
JDict(pairs) == [kind |-> "dict", n |-> 0, s |-> <<>>, items |-> pairs]

DigitChars == <<"0", "1", "2", "3", "4", "5", "6", "7", "8", "9">>

RECURSIVE IntDigits(_)
IntDigits(n) ==
    IF n < 10 THEN <<DigitChars[n + 1]>>
    ELSE IntDigits(n \div 10) \o <<DigitChars[(n % 10) + 1]>>

(* repr of an int or of a float that is a multiple of 0.5 *)
FormatNum(h) ==
    (IF h < 0 THEN <<"-">> ELSE <<>>)
    \o IntDigits((IF h < 0 THEN -h ELSE h) \div U)
    \o (IF h % U # 0 THEN <<".", "5">> ELSE <<>>)

(* the escapes of a JSON string; with ensure_ascii=False every other      *)
(* character is written as it is                                           *)
EscapeChar(c) ==
    IF c = "\"" THEN <<"\\", "\"">>
    ELSE IF c = "\\" THEN <<"\\", "\\">>
    ELSE IF c = "\n" THEN <<"\\", "n">>
    ELSE IF c = "\t" THEN <<"\\", "t">>
    ELSE <<c>>

RECURSIVE Escape(_)
Escape(s) == IF s = <<>> THEN <<>> ELSE EscapeChar(Head(s)) \o Escape(Tail(s))

Quoted(s) == <<"\"">> \o Escape(s) \o <<"\"">>

(* indent=2: a new line and two spaces per level *)
NewLine(depth) == <<"\n">> \o Rep(" ", 2 * depth)

RECURSIVE Dumps(_, _)
RECURSIVE DumpItems(_, _, _)
RECURSIVE DumpPairs(_, _, _)
Dumps(v, depth) ==
    IF v.kind = "num" THEN FormatNum(v.n)
    ELSE IF v.kind = "null" THEN <<"n", "u", "l", "l">>
    ELSE IF v.kind = "str" THEN Quoted(v.s)
    ELSE IF v.kind = "list"
    THEN IF v.items = <<>> THEN <<"[", "]">>
         ELSE <<"[">> \o DumpItems(v.items, depth + 1, 1) \o NewLine(depth) \o <<"]">>
    ELSE IF v.items = <<>> THEN <<"{", "}">>
         ELSE <<"{">> \o DumpPairs(v.items, depth + 1, 1) \o NewLine(depth) \o <<"}">>

DumpItems(items, depth, i) ==
    IF i > Len(items) THEN <<>>
    ELSE (IF i > 1 THEN <<",">> ELSE <<>>) \o NewLine(depth)
         \o Dumps(items[i], depth) \o DumpItems(items, depth, i + 1)

DumpPairs(pairs, depth, i) ==
    IF i > Len(pairs) THEN <<>>
    ELSE (IF i > 1 THEN <<",">> ELSE <<>>) \o NewLine(depth)
         \o Quoted(pairs[i].key) \o <<":", " ">>
         \o Dumps(pairs[i].val, depth) \o DumpPairs(pairs, depth, i + 1)

(* json.loads of a well-formed text: each reader returns the value and the *)
(* index after it                                                          *)
(* the first index from i on that is not in skipped (Len(t) + 1 if none) *)
Skip(t, i, skipped) ==
    SetMin({k \in i..(Len(t) + 1) : k > Len(t) \/ t[k] \notin skipped})

SkipWs(t, i) == Skip(t, i, Whitespace)

UnescapeMutRaw(c) == c

Unescape(c) == IF c = "n" THEN "\n" ELSE IF c = "t" THEN "\t" ELSE c

RECURSIVE ReadString(_, _, _)
ReadString(t, i, acc) ==
    IF t[i] = "\"" THEN [v |-> JStr(acc), i |-> i + 1]
    ELSE IF t[i] = "\\" THEN ReadString(t, i + 2, Append(acc, Unescape(t[i + 1])))
    ELSE ReadString(t, i + 1, Append(acc, t[i]))

RECURSIVE NumberEnd(_, _)
NumberEnd(t, i) ==
    IF i <= Len(t) /\ t[i] \in Digits \cup {"-", "."} THEN NumberEnd(t, i + 1) ELSE i

(* a number with at most one fraction digit, which is 0 or 5 *)
NumberValue(lit) ==
    LET negative == lit[1] = "-"
        body == IF negative THEN Tail(lit) ELSE lit
        dot == {k \in 1..Len(body) : body[k] = "."}
        whole == IF dot = {} THEN body ELSE SubSeq(body, 1, SetMin(dot) - 1)
        half == dot # {} /\ body[SetMin(dot) + 1] = "5"
        magnitude == DigitsValue(whole) * U + (IF half THEN 1 ELSE 0)
    IN  IF negative THEN -magnitude ELSE magnitude

ReadNumber(t, i, end) == [v |-> JNum(NumberValue(SubSeq(t, i, end - 1))), i |-> end]

RECURSIVE ReadValue(_, _)
RECURSIVE ReadItems(_, _, _)
RECURSIVE ReadPairs(_, _, _)
RECURSIVE ReadPair(_, _, _)
ReadValue(t, i) ==
    IF t[i] \in Whitespace THEN ReadValue(t, SkipWs(t, i))
    ELSE IF t[i] = "{" THEN ReadPairs(t, i + 1, <<>>)
    ELSE IF t[i] = "[" THEN ReadItems(t, i + 1, <<>>)
    ELSE IF t[i] = "\"" THEN ReadString(t, i + 1, <<>>)
    ELSE IF t[i] = "n" THEN [v |-> JNull, i |-> i + 4]
    ELSE ReadNumber(t, i, NumberEnd(t, i))

AddItem(t, item, acc) == ReadItems(t, item.i, Append(acc, item.v))

ReadItems(t, i, acc) ==
    IF t[i] \in Whitespace \cup {","}
    THEN ReadItems(t, Skip(t, i, Whitespace \cup {","}), acc)
    ELSE IF t[i] = "]" THEN [v |-> JList(acc), i |-> i + 1]
    ELSE AddItem(t, ReadValue(t, i), acc)

AddPair(t, key, val, acc) == ReadPairs(t, val.i, DictSet(acc, key, val.v))

(* key is the string just read; t[key.i] is the colon *)
ReadPair(t, key, acc) == AddPair(t, key.v.s, ReadValue(t, SkipWs(t, key.i) + 1), acc)

ReadPairs(t, i, acc) ==
    IF t[i] \in Whitespace \cup {","}
    THEN ReadPairs(t, Skip(t, i, Whitespace \cup {","}), acc)
    ELSE IF t[i] = "}" THEN [v |-> JDict(acc), i |-> i + 1]
    ELSE ReadPair(t, ReadString(t, i + 1, <<>>), acc)

Loads(t) == ReadValue(t, 1).v

(***************************************************************************)
(* Persistence of the game's state: state.py lines 37-55                   *)
(***************************************************************************)
(* the names of the persisted records that Spell does not have *)
Key ==
    [content |-> <<"c", "o", "n", "t", "e", "n", "t">>,
     timestamp |-> <<"t", "i", "m", "e", "s", "t", "a", "m", "p">>,
     tension_at_time |-> <<"t", "e", "n", "s", "i", "o", "n", "_", "a", "t", "_", "t", "i", "m", "e">>,
     consecutive_days |-> <<"c", "o", "n", "s", "e", "c", "u", "t", "i", "v", "e", "_", "d", "a", "y", "s">>,
     disappointment_events |-> <<"d", "i", "s", "a", "p", "p", "o", "i", "n", "t", "m", "e", "n", "t", "_", "e", "v", "e", "n", "t", "s">>,
     post_init |-> <<"_", "_", "p", "o", "s", "t", "_", "i", "n", "i", "t", "_", "_">>]

Pair(key, val) == [key |-> key, val |-> val]

(* data[key] *)
Get(pairs, key) == pairs[CHOOSE i \in 1..Len(pairs) : pairs[i].key = key].val

(* datetime.now().isoformat(): the text of instant t, and the instant of   *)
(* such a text                                                             *)
Iso(t) == <<"T">> \o IntDigits(t)
FromIso(s) == DigitsValue(Tail(s))

(* a remembered retraction, state.py lines 96-99, as asdict copies it *)
ItemRecord(item) ==
    JDict(<<Pair(Key.content, JStr(item.content)),
            Pair(Key.timestamp, JStr(Iso(item.timestamp)))>>)

ItemOf(jv) ==
    [content |-> Get(jv.items, Key.content).s,
     timestamp |-> FromIso(Get(jv.items, Key.timestamp).s)]

(* the value of retraction_memory or last_interaction, as asdict copies it *)
ValueRecord(v) ==
    IF v.kind = "list"
    THEN JList([i \in 1..Len(v.items) |-> ItemRecord(v.items[i])])
    ELSE IF v.kind = "int" THEN JNum(v.int * U)
    ELSE IF v.kind = "time" THEN JStr(Iso(v.int))
    ELSE JNull

(* and the attribute value a decoded JSON value is *)
ValueOf(jv) ==
    IF jv.kind = "list"
    THEN ListVal([i \in 1..Len(jv.items) |-> ItemOf(jv.items[i])])
    ELSE IF jv.kind = "num" THEN IntVal(jv.n \div U)
    ELSE IF jv.kind = "str" THEN TimeVal(FromIso(jv.s))
    ELSE NoneVal

(* to_dict, lines 37-38: asdict(self), the fields in declaration order *)
to_dict(s) ==
    JDict(<<Pair(Spell.warmth, JNum(s.warmth)),
            Pair(Spell.tension, JNum(s.tension)),
            Pair(Spell.trust, JNum(s.trust)),
            Pair(Spell.disappointment, JNum(s.disappointment)),
            Pair(Spell.need, JNum(s.need)),
            Pair(Spell.rhythm, JNum(s.rhythm)),
            Pair(Spell.retraction_memory, ValueRecord(s.retraction_memory)),
            Pair(Spell.last_interaction, ValueRecord(s.last_interaction))>>)

(* setattr(state, key, value), line 45, for a key that accepts it; the     *)
(* records given to it hold numbers in the six dimensions                  *)
LoadAttr(state, key, jv) ==
    IF \E d \in DimSet : Spell[d] = key
    THEN [state EXCEPT ![CHOOSE d \in DimSet : Spell[d] = key] = jv.n]
    ELSE IF key = Spell.retraction_memory
    THEN [state EXCEPT !.retraction_memory = ValueOf(jv)]
    ELSE IF key = Spell.last_interaction
    THEN [state EXCEPT !.last_interaction = ValueOf(jv)]
    ELSE [state EXCEPT !.shadowed = @ \cup {key}]

(* lines 43-45: for key, value in data.items(): if hasattr: setattr *)
RECURSIVE LoadAttrs(_, _)
LoadAttrs(state, pairs) ==
    IF pairs = <<>> THEN [state |-> state, raised |-> "none"]
    ELSE IF ~HasAttr(Head(pairs).key) THEN LoadAttrs(state, Tail(pairs))
    ELSE IF Head(pairs).key \in RefusingDunders
    THEN [state |-> state, raised |-> "TypeError"]
    ELSE LoadAttrs(LoadAttr(state, Head(pairs).key, Head(pairs).val), Tail(pairs))

(* from_dict, lines 40-46: state = cls(), then the loop *)
from_dict(data) == LoadAttrs(EmotionalState, data.items)

(* save, lines 48-49: the text written to path.  state.save and            *)
(* self.to_dict are looked up on the instance, where an integer may hide   *)
(* them.                                                                   *)
SaveRaises(state) == {Spell.save, Spell.to_dict} \cap state.shadowed # {}

save(state) == [exists |-> TRUE, text |-> Dumps(to_dict(state), 0)]

(* load, lines 51-55 *)
load(f) ==
    IF ~f.exists THEN [state |-> EmotionalState, raised |-> "none"]
    ELSE from_dict(Loads(f.text))

(***************************************************************************)
(* Persistence of the CLI's state: state_engine.py lines 253-268, and the  *)
(* init and apply commands of main, lines 300-310                          *)
(***************************************************************************)
CliItemRecord(item) ==
    JDict(<<Pair(Key.content, JStr(item.content)),
            Pair(Key.timestamp, JStr(Iso(item.timestamp))),
            Pair(Key.tension_at_time, JNum(item.tension_at_time))>>)

CliItemOf(jv) ==
    [content |-> Get(jv.items, Key.content).s,
     timestamp |-> FromIso(Get(jv.items, Key.timestamp).s),
     tension_at_time |-> Get(jv.items, Key.tension_at_time).n]

(* last_interaction is a str here: "" until the first event *)
CliStampRecord(v) == IF v.kind = "time" THEN JStr(Iso(v.int)) ELSE JStr(<<>>)
CliStampOf(jv) == IF jv.s = <<>> THEN NoneVal ELSE TimeVal(FromIso(jv.s))

(* asdict(state): the fields in declaration order, lines 34-45 *)
cli_asdict(s) ==
    JDict(<<Pair(Spell.warmth, JNum(s.warmth)),
            Pair(Spell.tension, JNum(s.tension)),
            Pair(Spell.trust, JNum(s.trust)),
            Pair(Spell.disappointment, JNum(s.disappointment)),
            Pair(Spell.need, JNum(s.need)),
            Pair(Spell.rhythm, JNum(s.rhythm)),
            Pair(Key.consecutive_days, JNum(s.consecutive_days)),
            Pair(Spell.last_interaction, CliStampRecord(s.last_interaction)),
            Pair(Spell.retraction_memory,
                 JList([i \in 1..Len(s.retraction_memory) |->
                          CliItemRecord(s.retraction_memory[i])])),
            Pair(Key.disappointment_events,
                 JList([i \in 1..Len(s.disappointment_events) |->
                          JStr(s.disappointment_events[i])]))>>)

CliFieldKeys ==
    {Spell[d] : d \in DimSet}
    \cup {Key.consecutive_days, Spell.last_interaction,
          Spell.retraction_memory, Key.disappointment_events}

(* hasattr(state, key), line 261: the fields, the two methods of the       *)
(* class, and the attributes every object has                              *)
CliHasAttr(key) ==
    key \in CliFieldKeys \cup {Spell.clamp, Key.post_init}
            \cup WritableDunders \cup RefusingDunders

(* setattr(state, key, value), line 262, on a loading in progress: the     *)
(* state, the non-field attributes hidden so far, and the exception        *)
CliLoadAttr(acc, key, jv) ==
    IF \E d \in DimSet : Spell[d] = key
    THEN [acc EXCEPT !.state[CHOOSE d \in DimSet : Spell[d] = key] = jv.n]
    ELSE IF key = Key.consecutive_days
    THEN [acc EXCEPT !.state.consecutive_days = jv.n]
    ELSE IF key = Spell.last_interaction
    THEN [acc EXCEPT !.state.last_interaction = CliStampOf(jv)]
    ELSE IF key = Spell.retraction_memory
    THEN [acc EXCEPT !.state.retraction_memory =
            [i \in 1..Len(jv.items) |-> CliItemOf(jv.items[i])]]
    ELSE IF key = Key.disappointment_events
    THEN [acc EXCEPT !.state.disappointment_events =
            [i \in 1..Len(jv.items) |-> jv.items[i].s]]
    ELSE [acc EXCEPT !.shadowed = @ \cup {key}]

(* lines 260-262 *)
RECURSIVE CliLoadAttrs(_, _)
CliLoadAttrs(acc, pairs) ==
    IF pairs = <<>> THEN acc
    ELSE IF ~CliHasAttr(Head(pairs).key) THEN CliLoadAttrs(acc, Tail(pairs))
    ELSE IF Head(pairs).key \in RefusingDunders
    THEN [acc EXCEPT !.raised = "TypeError"]
    ELSE CliLoadAttrs(CliLoadAttr(acc, Head(pairs).key, Head(pairs).val), Tail(pairs))

CliLoaded(state) == [state |-> state, shadowed |-> {}, raised |-> "none"]

(* load_state, lines 253-263 *)
load_state(f) ==
    IF ~f.exists THEN CliLoaded(CliEmotionalState)
    ELSE CliLoadAttrs(CliLoaded(CliEmotionalState), Loads(f.text).items)

(* save_state, lines 266-268: the text written to path *)
save_state(state) == [exists |-> TRUE, text |-> Dumps(cli_asdict(state), 0)]

(* the init command, lines 300-302 *)
main_init(warmth, tension) ==
    [CliEmotionalState EXCEPT !.warmth = warmth * U, !.tension = tension * U]

(* lines 308-309: if "error" not in result: save_state(state, args.state) *)
WriteBack(f, r) == IF r.ret = "error" THEN f ELSE save_state(r.state)

Exit(state, f, ret, raised) ==
    [state |-> state, file |-> f, ret |-> ret, raised |-> raised]

(* lines 307-309 on the loaded state.  apply_event rejects an unknown      *)
(* event before it touches the state (line 108); for a registered one its  *)
(* state.clamp() (line 140) raises TypeError when the record hid clamp     *)
(* behind a number, and the process ends before save_state.                *)
ApplyLoaded(loaded, f, r) ==
    IF loaded.raised # "none"
    THEN Exit(loaded.state, f, "none", loaded.raised)
    ELSE IF r.ret # "error" /\ Spell.clamp \in loaded.shadowed
    THEN Exit(loaded.state, f, "none", "TypeError")
    ELSE Exit(r.state, WriteBack(f, r), r.ret, "none")

Applied(loaded, f, event, content, t) ==
    ApplyLoaded(loaded, f, cli_apply_event(loaded.state, event, content, t))

(* the apply command, lines 305-309 *)
main_apply(f, event, content, t) ==
    Applied(load_state(f), f, event, content, t)

ShouldReplyMutDraw(state, event, draw) == draw

(* calculate_timing's should_reply, state.py lines 149 and 178-183: the    *)
(* draw random.random() < 0.7 decides it for a confession at warmth < 2    *)
ShouldReply(state, event, draw) ==
    IF event = "confession" /\ state.warmth < 2 * U THEN draw ELSE TRUE

(***************************************************************************)
(* calculate_timing: state.py lines 142-204 (the game) and                 *)
(* calculate_timing.py lines 26-138 (the typing-dynamics skill).  d holds  *)
(* the random draws of one call: each randint gives an end of its range,   *)
(* each random.random() < p either truth value.  The pace and may_abort of *)
(* a plan are the last ones drawn, so one draw stands for each of them.    *)
(* Warmth and tension are in halves, as in the state.                      *)
(***************************************************************************)
Randint(lo, hi, pick) == IF pick = 0 THEN lo ELSE hi

(* the five branches on warmth: lines 156-170 *)
Band(warmth) ==
    IF warmth <= -3 * U THEN 1
    ELSE IF warmth <= -1 * U THEN 2
    ELSE IF warmth <= 1 * U THEN 3
    ELSE IF warmth <= 3 * U THEN 4
    ELSE 5

BaseDelay ==
    <<[lo |-> 8000, hi |-> 15000], [lo |-> 5000, hi |-> 10000],
      [lo |-> 4000, hi |-> 8000], [lo |-> 2000, hi |-> 4000],
      [lo |-> 1000, hi |-> 2000]>>

BasePace ==
    <<[lo |-> 30, hi |-> 50], [lo |-> 60, hi |-> 80], [lo |-> 70, hi |-> 90],
      [lo |-> 60, hi |-> 80], [lo |-> 50, hi |-> 70]>>

EventDelayMutNoOffset(event, base_delay, d) == base_delay

(* lines 173-186: base_delay += randint(...) *)
EventDelay(event, base_delay, d) ==
    IF event = "retraction" THEN base_delay + Randint(10000, 20000, d.offset)
    ELSE IF event = "confession" THEN base_delay + Randint(15000, 30000, d.offset)
    ELSE IF event = "ambiguous" THEN base_delay + Randint(5000, 10000, d.offset)
    ELSE base_delay

(* lines 175, 180, 186 *)
EventPace(event, pace, d) ==
    IF event = "retraction" THEN Randint(120, 180, d.pace)
    ELSE IF event = "confession" THEN Randint(150, 200, d.pace)
    ELSE IF event = "ambiguous" THEN Randint(100, 150, d.pace)
    ELSE pace

TensionDelayMutKeep(tension, base_delay, d) == base_delay

(* lines 189-190 *)
TensionDelay(tension, base_delay, d) ==
    IF tension > 7 * U THEN Randint(2000, 30000, d.override) ELSE base_delay

TensionPaceMutKeep(tension, pace, d) == pace

(* line 191 *)
TensionPace(tension, pace, d) ==
    IF tension > 7 * U THEN Randint(50, 200, d.pace) ELSE pace

MayAbortMutNoGuard(event, warmth, tension, d) ==
    IF event \in {"retraction", "confession"} \/ tension > 7 * U THEN d.abort ELSE FALSE

(* may_abort: False (line 148) unless lines 176-177, 181-182 or 192 draw   *)
(* it; the same in calculate_timing.py (lines 80-81, 87-88, 108)           *)
MayAbort(event, warmth, tension, d) ==
    IF tension > 7 * U THEN d.abort
    ELSE IF event = "retraction" /\ tension > 5 * U THEN d.abort
    ELSE IF event = "confession" /\ warmth < 2 * U THEN d.abort
    ELSE FALSE

(* lines 197-202 *)
ReadDelay(warmth, d) ==
    IF warmth > 3 * U THEN Randint(5000, 30000, d.read)
    ELSE IF warmth > 0 THEN Randint(30000, 120000, d.read)
    ELSE Randint(120000, 300000, d.read)

calculate_timing(state, event, d) ==
    [typing_delay_ms |->
        TensionDelay(state.tension,
            EventDelay(event,
                Randint(BaseDelay[Band(state.warmth)].lo,
                        BaseDelay[Band(state.warmth)].hi, d.base), d), d),
     read_delay_ms |-> ReadDelay(state.warmth, d),
     pace_ms_per_char |->
        TensionPace(state.tension,
            EventPace(event,
                Randint(BasePace[Band(state.warmth)].lo,
                        BasePace[Band(state.warmth)].hi, d.pace), d), d),
     may_abort |-> MayAbort(event, state.warmth, state.tension, d),
     should_reply |-> ShouldReply(state, event, d.reply)]

(* calculate_timing.py lines 76-101: the skill knows two more events *)
SkillEventDelay(event, base_delay, d) ==
    IF event = "question" THEN base_delay + Randint(2000, 3000, d.offset)
    ELSE IF event = "silence" THEN 0
    ELSE EventDelay(event, base_delay, d)

(* calculate_timing.py lines 104-110 *)
SkillTensionDelay(tension, base_delay, d) ==
    IF tension > 7 * U THEN Randint(2000, 30000, d.override)
    ELSE IF tension > 5 * U THEN base_delay + Randint(3000, 8000, d.extra)
    ELSE base_delay

(* calculate_timing.py lines 44, 87-89, 99-101 *)
SkillShouldReply(warmth, event, draw) ==
    IF event = "silence" THEN FALSE
    ELSE IF event = "confession" /\ warmth < 2 * U THEN draw
    ELSE TRUE

(* calculate_timing.py lines 115-120 *)
SkillReadDelay(warmth, d) ==
    IF warmth > 3 * U THEN Randint(5000, 30000, d.read)
    ELSE IF warmth > 0 THEN Randint(60000, 300000, d.read)
    ELSE Randint(600000, 1800000, d.read)

(* calculate_timing(warmth, tension, event) of the skill, on integers *)
skill_calculate_timing(warmth, tension, event, d) ==
    [typing_delay_ms |->
        SkillTensionDelay(tension * U,
            SkillEventDelay(event,
                Randint(BaseDelay[Band(warmth * U)].lo,
                        BaseDelay[Band(warmth * U)].hi, d.base), d), d),
     read_delay_ms |-> SkillReadDelay(warmth * U, d),
     pace_ms_per_char |->
        TensionPace(tension * U,
            EventPace(event,
                Randint(BasePace[Band(warmth * U)].lo,
                        BasePace[Band(warmth * U)].hi, d.pace), d), d),
     may_abort |-> MayAbort(event, warmth * U, tension * U, d),
     should_reply |-> SkillShouldReply(warmth * U, event, d.reply)]

Msg(role, content) == [role |-> role, content |-> content]

RetNone == [kind |-> "None", text |-> <<>>]
RetRead == [kind |-> "read", text |-> <<>>]        \* "[已读]"
RetFiller == [kind |-> "filler", text |-> <<>>]    \* "……"
RetText(t) == [kind |-> "text", text |-> t]

NoTurn ==
    [op |-> "none", event |-> "none", gen |-> "none", ret |-> RetNone,
     committed |-> EmotionalState, controls |-> DefaultControls,
     caught |-> "none"]

ApiErrorMutReset(state, sess) ==
    [state |-> EmotionalState,
     sess |-> [sess EXCEPT !.messages = Append(@, Msg("assistant", <<"...">>))],
     ret |-> RetFiller]

(* the except branch, lines 694-702 *)
ApiError(state, sess) ==
    [state |-> state,
     sess |-> [sess EXCEPT !.last_consultant_message = "error",
                           !.messages = Append(@, Msg("assistant", <<"...">>))],
     ret |-> RetFiller]

(***************************************************************************)
(* The replies the text generator gives in a session                       *)
(***************************************************************************)
Tag(p, body) == p.open \o body \o Close

KV(key, val) == key \o <<"=">> \o val

Comma == <<",">>

Ok == <<"o", "k">>

R_plain == Ok
R_cold == Tag(STATE_PATTERN, KV(Spell.warmth, <<"-", "5">>)) \o Ok
R_range ==
    Tag(STATE_PATTERN,
        KV(Spell.tension, <<"1", "2">>) \o Comma \o KV(Spell.trust, <<"-", "3">>))
R_memory == Tag(STATE_PATTERN, KV(Spell.retraction_memory, <<"7">>)) \o Ok
R_last == Tag(STATE_PATTERN, KV(Spell.last_interaction, <<"1">>)) \o Ok
R_clamp ==
    Tag(STATE_PATTERN,
        KV(Spell.warmth, <<"9", "9">>) \o Comma \o KV(Spell.clamp, <<"0">>)) \o Ok
R_class ==
    Tag(STATE_PATTERN,
        KV(Spell.rhythm, <<"-", "3">>) \o Comma \o KV(W_dunder_class, <<"1">>)
        \o Comma \o KV(Spell.need, <<"9">>)) \o Ok
R_mixed ==
    Tag(STATE_PATTERN,
        KV(Spell.mood, <<"3">>) \o Comma \o KV(Spell.trust, <<"x">>)
        \o Comma \o KV(Spell.need, <<" ", "4", " ">>))
    \o <<"h", "m">> \o Tag(PACE_PATTERN, Spell.slow)

R_fast == Tag(PACE_PATTERN, Spell.fast) \o Ok

ReplyTexts ==
    {R_plain, R_cold, R_range, R_memory, R_last, R_clamp, R_class, R_mixed}

(* _parse_control_tags of each reply, line 669 *)
ParsedReplies == [t \in ReplyTexts \cup {R_fast} |-> _parse_control_tags(t)]

(* lines 671-692: the directives p parsed from the response are applied   *)
(* and the clean text is recorded; an exception raised in here is caught   *)
(* by the except branch                                                    *)
ApplyControls(r, sess, p) ==
    IF r.raised # "none"
    THEN [state |-> r.state, sess |-> ApiError(r.state, sess).sess,
          ret |-> RetFiller, controls |-> p.controls, caught |-> r.raised]
    ELSE [state |-> r.state,
          sess |-> [sess EXCEPT
                      !.messages = Append(@, Msg("assistant", p.clean)),
                      !.history = Append(@, Msg("assistant", p.clean)),
                      !.online_status = "online"],
          ret |-> RetText(p.clean),
          controls |-> p.controls, caught |-> "none"]

Respond(state, sess, p) ==
    ApplyControls(ApplyStateUpdates(state, p.controls.state_updates), sess, p)

(* lines 665-692: a response with a message *)
HandleResponse(state, sess, text) ==
    Respond(state, sess, ParsedReplies[text])

(* lines 653-704: the call of the text generator and what follows.  gen is *)
(* what the generator does: it raises, it answers without a message, or it *)
(* answers with a text.                                                    *)
CallApi(state, sess, gen) ==
    IF gen.kind = "raise"
    THEN LET e == ApiError(state, sess)
         IN  [state |-> e.state, sess |-> e.sess, ret |-> e.ret,
              controls |-> DefaultControls, caught |-> "ApiError"]
    ELSE IF gen.kind = "empty"
    THEN [state |-> state, sess |-> sess, ret |-> RetNone,
          controls |-> DefaultControls, caught |-> "none"]
    ELSE HandleResponse(state, sess, gen.text)

NoEvent(state) == [state |-> state, ret |-> "none", raised |-> "none"]

(* what send_message returns once the generator was called: a is the     *)
(* outcome of the call, turn0 the record of the turn so far               *)
Replied(a, turn0) ==
    [state |-> a.state, sess |-> a.sess, escaped |-> "none",
     turn |-> [turn0 EXCEPT !.ret = a.ret, !.controls = a.controls,
                            !.caught = a.caught]]

(***************************************************************************)
(* send_message, lines 583-704.  The result: the new state and session,    *)
(* the record of the turn (what it returned, the state the event           *)
(* applications committed, the directives parsed) and the exception that   *)
(* escaped it, if one did.                                                 *)
(***************************************************************************)
send_message(state, sess, user_input, draw, gen, t) ==
    IF Strip(user_input) = <<>>
    THEN [state |-> state, sess |-> sess, escaped |-> "none",
          turn |-> [NoTurn EXCEPT !.op = "blank", !.committed = state]]
    ELSE
    LET detected == _detect_event_type(user_input)
        r1 == IF detected # "normal"
              THEN apply_event(state,
                      IF detected = "ambiguous" THEN "said_ambiguous" ELSE "confession",
                      <<>>, t)
              ELSE NoEvent(state)
    IN  IF r1.raised # "none"
        THEN [state |-> r1.state, sess |-> sess, escaped |-> r1.raised,
              turn |-> [NoTurn EXCEPT !.op = "escaped", !.event = detected,
                                      !.committed = r1.state]]
        ELSE
    LET s2 == [sess EXCEPT !.messages = Append(@, Msg("user", user_input)),
                           !.history = Append(@, Msg("user", user_input))]
        seen == /\ s2.last_retraction.set
                /\ s2.last_retraction.visible_ms >= 3000
        r2 == IF seen
              THEN apply_event(r1.state, "retraction_seen",
                               s2.last_retraction.content, t)
              ELSE NoEvent(r1.state)
        event_type == IF seen THEN "retraction" ELSE detected
    IN  IF r2.raised # "none"
        THEN [state |-> r2.state, sess |-> s2, escaped |-> r2.raised,
              turn |-> [NoTurn EXCEPT !.op = "escaped", !.event = event_type,
                                      !.committed = r2.state]]
        ELSE
    LET s3 == [s2 EXCEPT !.last_retraction = NoRetraction]
        turn0 == [NoTurn EXCEPT !.op = "turn", !.event = event_type,
                                !.committed = r2.state]
    IN  IF ~ShouldReply(r2.state, event_type, draw)
        THEN [state |-> r2.state,
              sess |-> [s3 EXCEPT !.online_status = "idle",
                                  !.messages = Append(@, Msg("assistant", <<"[", "read", "]">>))],
              escaped |-> "none",
              turn |-> [turn0 EXCEPT !.ret = RetRead]]
        ELSE
    Replied(CallApi(r2.state, [s3 EXCEPT !.online_status = "online"], gen),
            [turn0 EXCEPT !.gen = gen.kind])

(* lines 706-709; time.time() is kept as "a start time is set" *)
start_typing(sess, text) ==
    [sess EXCEPT !.pending_text = text, !.pending_start = TRUE]

(* lines 711-720; visible_ms is the time that passed since start_typing *)
retract_message(sess, visible_ms) ==
    [IF sess.pending_text # <<>> /\ sess.pending_start
     THEN [sess EXCEPT !.last_retraction =
              [set |-> TRUE, content |-> sess.pending_text, visible_ms |-> visible_ms]]
     ELSE sess
     EXCEPT !.pending_text = <<>>, !.pending_start = FALSE]

(***************************************************************************)
(* Inputs of the engine specifications                                     *)
(***************************************************************************)
(* Every name either table registers, and one name neither registers. *)
EventNames == (DOMAIN CLI_TRANSITIONS) \cup {"not_a_real_event"}

(* 49 units, then a keyword that straddles the 50-unit cut *)
LongContent == Rep("a", 49) \o <<"dui", "bu", "qi">>

Contents == {<<>>, <<"h", "i">>, <<"dui", "bu", "qi">>, LongContent}

ContentsFor(e) ==
    IF e = "retraction_seen" THEN Contents
    ELSE IF e = "not_a_real_event" THEN {<<>>, <<"dui", "bu", "qi">>}
    ELSE {<<>>}

GridValues(d) ==
    IF d = "warmth" THEN {-5 * U, 0, 5 * U} ELSE {0, 5 * U, 10 * U}

GridStates(default) ==
    {[default EXCEPT !.warmth = w, !.tension = t, !.trust = tr,
                     !.disappointment = di, !.need = n, !.rhythm = r] :
        w \in GridValues("warmth"), t \in GridValues("tension"),
        tr \in GridValues("trust"), di \in GridValues("disappointment"),
        n \in GridValues("need"), r \in GridValues("rhythm")}

(* the keys of the dict apply_event returns: state.py lines 88 and 116 *)
GameReturnKeys(ret) ==
    IF ret = "error" THEN {"error"}
    ELSE IF ret = "changes" THEN {"changes"}
    ELSE {}

(* state_engine.py lines 108 and 153-158 *)
CliReturnKeys(ret) ==
    IF ret = "error" THEN {"error"}
    ELSE {"old", "new", "changes", "special_states"}

NoOp == [op |-> "none", event |-> "", content |-> <<>>, ret |-> "none",
         raised |-> "none", keys |-> {}, special_states |-> {}]

(* One call of the game's apply_event on es. *)
GameStep(events) ==
    /\ variant = "game"
    /\ \E e \in events : \E c \in ContentsFor(e) :
         LET r == ApplyEventIn(tables.game, es, e, c, now)
         IN  /\ es' = r.state
             /\ tables' = [tables EXCEPT !.game = TableAfter(@, e, c)]
             /\ last' = [op |-> "apply_event", event |-> e, content |-> c,
                         ret |-> r.ret, raised |-> r.raised,
                         keys |-> GameReturnKeys(r.ret), special_states |-> {}]
             /\ arrivals' = IF e = "retraction_seen" /\ c # <<>> /\ r.ret = "changes"
                            THEN Append(arrivals, c) ELSE arrivals
    /\ now' = now + 1
    /\ steps' = steps + 1
    /\ UNCHANGED <<variant, cs, raw, parsed, session, crashed, file>>

(* One call of the CLI's apply_event on cs. *)
CliStep(events) ==
    /\ variant = "cli"
    /\ \E e \in events : \E c \in ContentsFor(e) :
         LET r == CliApplyEventIn(tables.cli, cs, e, c, now)
         IN  /\ cs' = r.state
             /\ tables' = [tables EXCEPT !.cli = TableAfter(@, e, c)]
             /\ last' = [op |-> "apply_event", event |-> e, content |-> c,
                         ret |-> r.ret, raised |-> "none",
                         keys |-> CliReturnKeys(r.ret),
                         special_states |-> r.special_states]
             /\ arrivals' = IF e = "retraction_seen" /\ c # <<>> /\ r.ret = "changes"
                            THEN Append(arrivals, c) ELSE arrivals
    /\ now' = now + 1
    /\ steps' = steps + 1
    /\ UNCHANGED <<variant, es, raw, parsed, session, crashed, file>>

(***************************************************************************)
(* SpecEngine: apply_event as a function.  One engine, in any state of the *)
(* grid of in-range integer states, is given any one event.                *)
(***************************************************************************)
EngineInit ==
    /\ variant \in {"game", "cli"}
    /\ es \in (IF variant = "game" THEN GridStates(EmotionalState) ELSE {EmotionalState})
    /\ cs \in (IF variant = "cli" THEN GridStates(CliEmotionalState) ELSE {CliEmotionalState})
    /\ now = 1
    /\ steps = 0
    /\ last = NoOp
    /\ arrivals = <<>>
    /\ raw = <<>>
    /\ parsed = NotParsed
    /\ tables = Tables
    /\ session = InvisibleWallGame
    /\ crashed = "none"
    /\ file = NoFile

EngineGame == last.op = "none" /\ GameStep(EventNames)

EngineCli == last.op = "none" /\ CliStep(EventNames)

EngineNext == EngineGame \/ EngineCli

SpecEngine == EngineInit /\ [][EngineNext]_vars

(***************************************************************************)
(* SpecMemory: an engine started in the default state sees a run of        *)
(* retractions mixed with other events.                                    *)
(***************************************************************************)
MemoryEvents == {"retraction_seen", "normal_chat", "not_a_real_event"}

MemoryInit ==
    /\ variant \in {"game", "cli"}
    /\ es = EmotionalState
    /\ cs = CliEmotionalState
    /\ now = 1
    /\ steps = 0
    /\ last = NoOp
    /\ arrivals = <<>>
    /\ raw = <<>>
    /\ parsed = NotParsed
    /\ tables = Tables
    /\ session = InvisibleWallGame
    /\ crashed = "none"
    /\ file = NoFile

MemoryGame == steps < MaxRetractions /\ GameStep(MemoryEvents)

MemoryCli == steps < MaxRetractions /\ CliStep(MemoryEvents)

MemoryNext == MemoryGame \/ MemoryCli

SpecMemory == MemoryInit /\ [][MemoryNext]_vars

(***************************************************************************)
(* Properties of the engine                                                *)
(***************************************************************************)
Registered == IF variant = "game" THEN DOMAIN TRANSITIONS ELSE DOMAIN CLI_TRANSITIONS

Delta(table, e, d) == IF d \in DOMAIN table[e] THEN table[e][d] ELSE 0

ClampDim(d, x) == Max(Lo(d), Min(Hi(d), x))

(* C2: an event name that the engine's table does not register returns   *)
(* the error value and leaves every field of the state as it was: the six *)
(* dimensions, the retraction memory and lastInteraction.                 *)
C2_UnknownEventRejected ==
    [][(last'.op = "apply_event" /\ last'.event \notin Registered)
        => /\ last'.ret = "error"
           /\ es' = es
           /\ cs' = cs]_vars

C2_Witness ==
    /\ variant = "game"
    /\ last.op = "apply_event"
    /\ last.event = "long_silence"
    /\ last.ret = "error"
    /\ es.tension = 10 * U
    /\ es.warmth = -5 * U

(* C9: a registered event applied without content leaves every dimension  *)
(* d at clamp_d(trunc(old d + delta(e, d))), delta being 0 for a dimension *)
(* the table does not list for the event.                                  *)
C9_TableDelta ==
    [][(last'.op = "apply_event" /\ last'.event \in Registered /\ last'.content = <<>>)
        => \A d \in DimSet :
            /\ variant = "game" =>
                 es'[d] = ClampDim(d, PyInt(es[d] + Delta(TRANSITIONS, last'.event, d)))
            /\ variant = "cli" =>
                 cs'[d] = ClampDim(d, PyInt(cs[d] + Delta(CLI_TRANSITIONS, last'.event, d)))]_vars

(* C10: every one of the six dimensions always holds an integer.           *)
C10_IntegerStorage ==
    \A d \in DimSet : IsWhole(es[d]) /\ IsWhole(cs[d])

Memory == IF variant = "game" THEN es.retraction_memory.items ELSE cs.retraction_memory

(* C7: the retraction memory never holds more than 5 records; it holds the *)
(* most recent min(n, 5) of the n contents that arrived, oldest first,     *)
(* each cut to its first 50 units.                                         *)
C7_MemoryCap ==
    LET n == Len(arrivals)
        m == Len(Memory)
    IN  /\ m <= 5
        /\ m = Min(n, 5)
        /\ \A i \in 1..m :
             LET kept == Memory[i].content
                 sent == arrivals[n - m + i]
             IN  /\ Len(kept) = Min(Len(sent), 50)
                 /\ \A k \in 1..Len(kept) : kept[k] = sent[k]
        /\ \A i \in 1..(m - 1) : Memory[i].timestamp < Memory[i + 1].timestamp

C7_Witness ==
    /\ Len(arrivals) > 5
    /\ Len(Memory) = 5
    /\ arrivals[1] # arrivals[2]
    /\ \E i \in 1..5 : Len(Memory[i].content) = 50

(* the state of the engine the specification drives *)
Engine == IF variant = "game" THEN es ELSE cs

(* C11: the names apply_event accepts are exactly the 20 names of the     *)
(* closed table: each of them is applied without the unknown-event error   *)
(* and every other name is rejected.                                       *)
C11_ClosedEventTable ==
    LET listed ==
            {"consistent_daily", "remembered_detail", "patient_waiting",
             "shared_personal", "natural_rhythm", "showed_care",
             "eager_push", "disappeared_24h", "obvious_dismissal",
             "inconsistent_story", "forgot_detail", "missed_emotion",
             "self_centered",
             "said_ambiguous", "retraction_seen", "asked_feelings", "confession",
             "normal_chat", "long_silence", "time_passed_day"}
    IN  last.op = "apply_event" =>
            (last.ret = "error" <=> last.event \notin listed)

(* C12: retraction_seen raises tension by 4 (base 2 plus bonus 2) when the *)
(* content contains one of the emotional keywords and by 2 when it         *)
(* contains none, the sum being clamped to 10.                             *)
C12_RetractionTension ==
    [][(last'.op = "apply_event" /\ last'.event = "retraction_seen"
            /\ last'.ret = "changes")
        => Engine'.tension =
             Min(10 * U,
                 Engine.tension
                    + (IF \E kw \in emotional_keywords : Contains(last'.content, kw)
                       THEN 4 * U ELSE 2 * U))]_vars

C12_Witness ==
    /\ variant = "game"
    /\ last.op = "apply_event"
    /\ last.event = "retraction_seen"
    /\ last.content = LongContent
    /\ es.tension = 4 * U
    /\ Len(es.retraction_memory.items) = 1

(* C13: every applied retraction_seen event appends one record {content   *)
(* cut to 50 units, timestamp} to the retraction memory before the cap,    *)
(* whatever the content, an empty one included.                            *)
C13_RetractionAlwaysRemembered ==
    [][(last'.op = "apply_event" /\ last'.event = "retraction_seen"
            /\ last'.ret = "changes")
        => /\ Len(Memory') = Min(5, Len(Memory) + 1)
           /\ Memory'[Len(Memory')].content = Truncate(last'.content)
           /\ Memory'[Len(Memory')].timestamp = now]_vars

(* C14: every successful apply_event returns a special_states set, which  *)
(* holds distancing_mode iff disappointment >= 7, high_alert iff           *)
(* tension >= 8 and cold_mode iff warmth <= -3 in the clamped state, and   *)
(* nothing else.                                                           *)
C14_SpecialStatesReturned ==
    (last.op = "apply_event" /\ last.ret = "changes")
        => /\ "special_states" \in last.keys
           /\ \A m \in last.special_states \cup
                       {"distancing_mode", "high_alert", "cold_mode"} :
                m \in last.special_states <=>
                    \/ m = "distancing_mode" /\ Engine.disappointment >= 7 * U
                    \/ m = "high_alert" /\ Engine.tension >= 8 * U
                    \/ m = "cold_mode" /\ Engine.warmth <= -3 * U

(* C15: last_interaction holds the time of the most recent successfully   *)
(* applied event: a successful apply_event sets it to the current time, a  *)
(* rejected one leaves it as it was.                                       *)
C15_LastInteraction ==
    [][last'.op = "apply_event"
        => Engine'.last_interaction =
             IF last'.ret = "changes" THEN TimeVal(now)
             ELSE Engine.last_interaction]_vars

C15_Witness ==
    /\ last.op = "apply_event"
    /\ last.event = "not_a_real_event"
    /\ last.ret = "error"
    /\ Engine.last_interaction = TimeVal(now - 2)
    /\ steps >= 2

(***************************************************************************)
(* SpecParse: _parse_control_tags as a function of its text.  The texts    *)
(* are the concatenations of at most MaxChunks pieces: plain text, whole   *)
(* tags, a malformed tag, and the two halves of a tag, which meet when the *)
(* tag between them is removed.                                            *)
(***************************************************************************)
Chunks ==
    {Ok,
     <<"<", "!", "-", "-", "t", "y", "p">>,
     <<"i", "n", "g", ":">> \o KV(Spell.duration, <<"5">>) \o Close,
     Tag(PACE_PATTERN, Spell.slow),
     Tag(PAUSE_PATTERN, <<"5", "0", "0">>),
     Tag(PAUSE_PATTERN, <<"x">>),
     Tag(STATE_PATTERN, KV(Spell.warmth, <<"2">>)),
     Tag(PRESENCE_PATTERN, <<"a", "w", "a", "y">>),
     Tag(READ_PATTERN, <<"1">>)}

RECURSIVE Texts(_)
Texts(n) ==
    IF n = 0 THEN {<<>>}
    ELSE LET shorter == Texts(n - 1)
         IN  shorter \cup {t \o c : t \in shorter, c \in Chunks}

Patterns ==
    {TYPING_PATTERN, PAUSE_PATTERN, STATE_PATTERN, PRESENCE_PATTERN,
     READ_PATTERN, PACE_PATTERN}

ParseInit ==
    /\ raw \in Texts(MaxChunks)
    /\ parsed = NotParsed
    /\ tables = Tables
    /\ variant = "game"
    /\ es = EmotionalState
    /\ cs = CliEmotionalState
    /\ now = 1
    /\ steps = 0
    /\ last = NoOp
    /\ arrivals = <<>>
    /\ session = InvisibleWallGame
    /\ crashed = "none"
    /\ file = NoFile

Parse ==
    /\ ~parsed.done
    /\ parsed' = LET r == _parse_control_tags(raw)
                 IN  [done |-> TRUE, clean |-> r.clean, controls |-> r.controls]
    /\ UNCHANGED <<tables, variant, es, cs, now, steps, last, arrivals, raw, session, crashed, file>>

SpecParse == ParseInit /\ [][Parse]_vars

(* C6: the clean text holds no tag of any of the six kinds (no match of    *)
(* any of the six patterns is left in it).                                 *)
C6_TagStripping ==
    parsed.done => \A p \in Patterns : ~Search(p, parsed.clean).found

(***************************************************************************)
(* SpecDirectives: _parse_control_tags on a reply that carries one tag.    *)
(* A state or typing tag holds at most MaxParams comma-separated           *)
(* parameters; each parameter below is written with what int() makes of    *)
(* its value (ok: it converts, to val) and the key it is recorded under.   *)
(* A pace tag holds a name, a pause tag a number of milliseconds.          *)
(***************************************************************************)
Param(text, key, ok, val) == [text |-> text, key |-> key, ok |-> ok, val |-> val]

Params ==
    {Param(KV(Spell.warmth, <<"2">>), Spell.warmth, TRUE, 2),
     Param(<<" ">> \o Spell.trust \o <<" ", "=", " ", "+", "4", " ">>, Spell.trust, TRUE, 4),
     Param(KV(Spell.trust, <<"x">>), Spell.trust, FALSE, 0),
     Param(KV(Spell.tension, <<"1", ".", "5">>), Spell.tension, FALSE, 0),
     Param(Spell.rhythm, Spell.rhythm, FALSE, 0),
     Param(KV(Spell.warmth, <<"2", "=", "3">>), Spell.warmth, FALSE, 0),
     Param(KV(Spell.duration, <<"5">>), Spell.duration, TRUE, 5),
     Param(KV(Spell.duration, <<"a", "b", "c">>), Spell.duration, FALSE, 0)}

RECURSIVE ParamLists(_)
ParamLists(n) ==
    IF n = 0 THEN {<<>>}
    ELSE LET shorter == ParamLists(n - 1)
         IN  shorter \cup {Append(ps, p) : ps \in shorter, p \in Params}

RECURSIVE Join(_, _)
Join(ps, sep) ==
    IF ps = <<>> THEN <<>>
    ELSE IF Len(ps) = 1 THEN ps[1].text
    ELSE ps[1].text \o sep \o Join(Tail(ps), sep)

PaceNames == {Spell.normal, Spell.slow, Spell.fast, Spell.hesitant, <<"t", "u", "r", "b", "o">>}

(* the replies: what each is made of, and its text *)
Reply(tag, params, name, text) ==
    [op |-> "none", tag |-> tag, params |-> params, name |-> name, text |-> text]

Replies ==
    {Reply("state", ps, <<>>, Tag(STATE_PATTERN, Join(ps, Comma)) \o Ok) :
        ps \in ParamLists(MaxParams) \ {<<>>}}
    \cup {Reply("typing", ps, <<>>, Tag(TYPING_PATTERN, Join(ps, Comma)) \o Ok) :
        ps \in ParamLists(MaxParams) \ {<<>>}}
    \cup {Reply("pace", <<>>, n, Tag(PACE_PATTERN, n) \o Ok) : n \in PaceNames}
    \cup {Reply("pause", <<>>, <<>>, Ok \o Tag(PAUSE_PATTERN, <<"5", "0", "0">>) \o Ok),
          Reply("none", <<>>, <<>>, Ok)}

DirectivesInit ==
    /\ last \in Replies
    /\ raw = last.text
    /\ parsed = NotParsed
    /\ tables = Tables
    /\ variant = "game"
    /\ es = EmotionalState
    /\ cs = CliEmotionalState
    /\ now = 1
    /\ steps = 0
    /\ arrivals = <<>>
    /\ session = InvisibleWallGame
    /\ crashed = "none"
    /\ file = NoFile

SpecDirectives == DirectivesInit /\ [][Parse]_vars

(* the pairs a list of parameters leaves: for each key with a parameter    *)
(* that converts, the value of the last such parameter                     *)
Recorded(ps) ==
    {<<ps[i].key, ps[i].val>> : i \in {k \in 1..Len(ps) :
        /\ ps[k].ok
        /\ \A j \in (k + 1)..Len(ps) : ~(ps[j].ok /\ ps[j].key = ps[k].key)}}

Pairs(d) == {<<d[i].key, d[i].val>> : i \in 1..Len(d)}

(* C23: every reply is parsed; a parameter whose value is not an integer   *)
(* adds nothing to the directives, and every parameter of the same tag     *)
(* whose value is one is recorded (for a key given twice, the last         *)
(* integer); the typing tag records its duration the same way.             *)
C23_DropsOnlyBadKeys ==
    parsed.done =>
        /\ last.tag = "state" =>
             /\ Pairs(parsed.controls.state_updates) = Recorded(last.params)
             /\ Len(parsed.controls.state_updates) = Cardinality(Recorded(last.params))
        /\ last.tag = "typing" =>
             \/ /\ parsed.controls.typing_duration = NoneVal
                /\ ~\E p \in Recorded(last.params) : p[1] = Spell.duration
             \/ /\ parsed.controls.typing_duration.kind = "int"
                /\ <<Spell.duration, parsed.controls.typing_duration.int>>
                      \in Recorded(last.params)
        /\ last.tag # "state" => parsed.controls.state_updates = <<>>
        /\ last.tag # "typing" => parsed.controls.typing_duration = NoneVal

(* a state tag whose first parameter does not convert, before and after    *)
(* two that do                                                             *)
C23_Witness ==
    /\ parsed.done
    /\ last.tag = "state"
    /\ Len(last.params) = 3
    /\ ~last.params[1].ok /\ last.params[1].key = Spell.trust
    /\ last.params[2].ok /\ last.params[2].key = Spell.trust
    /\ last.params[3].ok /\ last.params[3].key = Spell.warmth
    /\ Pairs(parsed.controls.state_updates) = {<<Spell.trust, 4>>, <<Spell.warmth, 2>>}
    /\ parsed.clean = Ok

(* C24: the pace parse returns is one of normal, slow, fast, hesitant.     *)
C24_PaceEnum ==
    parsed.done =>
        parsed.controls.pace \in {Spell.normal, Spell.slow, Spell.fast, Spell.hesitant}

(* C30: a reply with an inline-pause tag yields a non-empty pauses         *)
(* mapping.                                                                *)
C30_PausesRecorded ==
    (parsed.done /\ Search(PAUSE_PATTERN, raw).found) =>
        parsed.controls.pauses # <<>>

(***************************************************************************)
(* SpecTiming: calculate_timing as a function.  One call, of the game's    *)
(* function or of the skill's, at any integer warmth, at a tension on      *)
(* either side of both thresholds, for any event and any draws.            *)
(***************************************************************************)
TimingWarmths == -5..5

TimingTensions == {0, 5, 6, 7, 8, 10}

GameEvents == {"normal", "retraction", "confession", "ambiguous"}

SkillEvents == GameEvents \cup {"question", "silence"}

Draws ==
    [base : {0, 1}, offset : {0, 1}, extra : {0, 1}, override : {0, 1},
     pace : {0, 1}, read : {0, 1}, abort : BOOLEAN, reply : BOOLEAN]

TimingInit ==
    /\ variant \in {"game", "skill"}
    /\ last \in {[op |-> "none", warmth |-> w, tension |-> t] :
                    w \in TimingWarmths, t \in TimingTensions}
    /\ es = IF variant = "game"
            THEN [EmotionalState EXCEPT !.warmth = last.warmth * U,
                                        !.tension = last.tension * U]
            ELSE EmotionalState
    /\ cs = CliEmotionalState
    /\ now = 1
    /\ steps = 0
    /\ arrivals = <<>>
    /\ raw = <<>>
    /\ parsed = NotParsed
    /\ tables = Tables
    /\ session = InvisibleWallGame
    /\ crashed = "none"
    /\ file = NoFile

Planned(event, plan) ==
    /\ last' = [op |-> "plan", warmth |-> last.warmth, tension |-> last.tension,
                event |-> event, plan |-> plan]
    /\ UNCHANGED <<tables, variant, es, cs, now, steps, arrivals, raw, parsed, session,
                   crashed, file>>

(* calculate_timing(self.state, event_type) *)
TimingGame ==
    /\ variant = "game"
    /\ last.op = "none"
    /\ \E e \in GameEvents : \E d \in Draws : Planned(e, calculate_timing(es, e, d))

(* calculate_timing(warmth, tension, args.event) *)
TimingSkill ==
    /\ variant = "skill"
    /\ last.op = "none"
    /\ \E e \in SkillEvents : \E d \in Draws :
         Planned(e, skill_calculate_timing(last.warmth, last.tension, e, d))

TimingNext == TimingGame \/ TimingSkill

SpecTiming == TimingInit /\ [][TimingNext]_vars

(* C25: at a tension above 7 the typing delay is within 2000..30000 and    *)
(* the pace within 50..200, whatever the warmth and the event.             *)
C25_TensionOverride ==
    (last.op = "plan" /\ last.tension > 7) =>
        /\ last.plan.typing_delay_ms \in 2000..30000
        /\ last.plan.pace_ms_per_char \in 50..200

(* the skill's plan for silence at tension 8: the override replaced the 0  *)
C25_Witness ==
    /\ variant = "skill"
    /\ last.op = "plan"
    /\ last.event = "silence"
    /\ last.tension = 8
    /\ last.warmth = -5
    /\ last.plan.typing_delay_ms = 2000
    /\ last.plan.pace_ms_per_char = 200

(* the offset the claim gives each event *)
Offset(event) ==
    IF event = "retraction" THEN [lo |-> 10000, hi |-> 20000]
    ELSE IF event = "confession" THEN [lo |-> 15000, hi |-> 30000]
    ELSE IF event = "ambiguous" THEN [lo |-> 5000, hi |-> 10000]
    ELSE [lo |-> 0, hi |-> 0]

(* C26: at a tension of at most 7 the typing delay lies between the band's *)
(* minimum plus the event's least offset and the band's maximum plus its   *)
(* greatest offset.                                                        *)
C26_BandedDelay ==
    (last.op = "plan" /\ last.tension <= 7 /\ last.event \in GameEvents) =>
        /\ last.plan.typing_delay_ms
              >= BaseDelay[Band(last.warmth * U)].lo + Offset(last.event).lo
        /\ last.plan.typing_delay_ms
              <= BaseDelay[Band(last.warmth * U)].hi + Offset(last.event).hi

(* C27: a plan says not to reply only for a confession at a warmth below   *)
(* 2, or for silence.                                                      *)
C27_ShouldReply ==
    (last.op = "plan" /\ ~last.plan.should_reply) =>
        \/ last.event = "confession" /\ last.warmth < 2
        \/ last.event = "silence"

(* the game's plan for a confession at warmth 1 that says not to reply *)
C27_Witness ==
    /\ variant = "game"
    /\ last.op = "plan"
    /\ last.event = "confession"
    /\ last.warmth = 1
    /\ last.tension = 5
    /\ ~last.plan.should_reply
    /\ last.plan.typing_delay_ms = 19000

(* C28: a plan may abort only for a retraction at a tension above 5, for a *)
(* confession at a warmth below 2, or at a tension above 7.                *)
C28_MayAbort ==
    (last.op = "plan" /\ last.plan.may_abort) =>
        \/ last.event = "retraction" /\ last.tension > 5
        \/ last.event = "confession" /\ last.warmth < 2
        \/ last.tension > 7

(* a plan for a retraction at tension 6 that may abort *)
C28_Witness ==
    /\ variant = "game"
    /\ last.op = "plan"
    /\ last.event = "retraction"
    /\ last.tension = 6
    /\ last.warmth = 3
    /\ last.plan.may_abort
    /\ last.plan.should_reply

(***************************************************************************)
(* SpecClassify: _detect_event_type as a function of the user's input.     *)
(* The inputs are made of at most MaxWords phrases: whole keywords of both *)
(* lists and pieces that form a keyword only when they meet.               *)
(***************************************************************************)
Phrases ==
    {<<"h", "i">>,
     <<"xi", "huan">>,                  \* 喜欢
     <<"ni">>,                          \* 你
     <<"xiang">>,                       \* 想
     <<"zai", "yi", "qi">>,             \* 在一起
     <<"zai", "gan", "ma2">>,           \* 在干嘛
     <<"wan", "an">>,                   \* 晚安
     <<"biao", "bai">>}                 \* 表白

RECURSIVE Inputs(_)
Inputs(n) ==
    IF n = 0 THEN {<<>>}
    ELSE LET shorter == Inputs(n - 1)
         IN  shorter \cup {t \o c : t \in shorter, c \in Phrases}

NotClassified == [op |-> "none", result |-> "none"]

ClassifyInit ==
    /\ raw \in Inputs(MaxWords)
    /\ last = NotClassified
    /\ parsed = NotParsed
    /\ tables = Tables
    /\ variant = "game"
    /\ es = EmotionalState
    /\ cs = CliEmotionalState
    /\ now = 1
    /\ steps = 0
    /\ arrivals = <<>>
    /\ session = InvisibleWallGame
    /\ crashed = "none"
    /\ file = NoFile

Classify ==
    /\ last.op = "none"
    /\ last' = [op |-> "classify", result |-> _detect_event_type(raw)]
    /\ UNCHANGED <<tables, variant, es, cs, now, steps, arrivals, raw, parsed, session, crashed, file>>

SpecClassify == ClassifyInit /\ [][Classify]_vars

HasConfession == \E kw \in confession_keywords : Contains(raw, kw)

HasAmbiguous == \E kw \in ambiguous_keywords : Contains(raw, kw)

(* C16: the classification is confession whenever the input contains a    *)
(* confession keyword, also when it contains an ambiguous keyword as well; *)
(* ambiguous when it contains an ambiguous keyword and no confession       *)
(* keyword; normal otherwise.                                              *)
C16_Classify ==
    last.op = "classify" =>
        /\ HasConfession => last.result = "confession"
        /\ (HasAmbiguous /\ ~HasConfession) => last.result = "ambiguous"
        /\ (~HasAmbiguous /\ ~HasConfession) => last.result = "normal"

C16_Witness ==
    /\ last.op = "classify"
    /\ last.result = "confession"
    /\ HasAmbiguous
    /\ Contains(raw, <<"xi", "huan", "ni">>)
    /\ ~Contains(raw, <<"zai", "yi", "qi">>)

(***************************************************************************)
(* SpecClamp: clamp() called MaxClamps times in a row on a state whose     *)
(* dimensions are anywhere: below the range, inside it (a fraction in the  *)
(* CLI's engine, which stores floats), on its upper end and above it.      *)
(***************************************************************************)
WildValues(d, inside) == {-7 * U, inside, Hi(d), 12 * U}

WildStates(base, inside) ==
    {[base EXCEPT !.warmth = w, !.tension = t, !.trust = tr,
                  !.disappointment = di, !.need = n, !.rhythm = r] :
        w \in WildValues("warmth", inside), t \in WildValues("tension", inside),
        tr \in WildValues("trust", inside),
        di \in WildValues("disappointment", inside),
        n \in WildValues("need", inside), r \in WildValues("rhythm", inside)}

(* a state that has seen one retraction *)
UsedGameState ==
    [EmotionalState EXCEPT
        !.retraction_memory =
            ListVal(<<[content |-> <<"h", "i">>, timestamp |-> 1]>>),
        !.last_interaction = TimeVal(1)]

UsedCliState ==
    [CliEmotionalState EXCEPT
        !.retraction_memory =
            <<[content |-> <<"h", "i">>, timestamp |-> 1, tension_at_time |-> 0]>>,
        !.last_interaction = TimeVal(1),
        !.consecutive_days = 3]

ClampInit ==
    /\ variant \in {"game", "cli"}
    /\ es \in (IF variant = "game" THEN WildStates(UsedGameState, 2 * U)
               ELSE {EmotionalState})
    /\ cs \in (IF variant = "cli" THEN WildStates(UsedCliState, 3)
               ELSE {CliEmotionalState})
    /\ now = 2
    /\ steps = 0
    /\ last = [op |-> "none"]
    /\ arrivals = <<>>
    /\ raw = <<>>
    /\ parsed = NotParsed
    /\ tables = Tables
    /\ session = InvisibleWallGame
    /\ crashed = "none"
    /\ file = NoFile

ClampGame ==
    /\ variant = "game"
    /\ steps < MaxClamps
    /\ es' = clamp(es)
    /\ last' = [op |-> "clamp"]
    /\ steps' = steps + 1
    /\ UNCHANGED <<tables, variant, cs, now, arrivals, raw, parsed, session, crashed, file>>

ClampCli ==
    /\ variant = "cli"
    /\ steps < MaxClamps
    /\ cs' = clamp(cs)
    /\ last' = [op |-> "clamp"]
    /\ steps' = steps + 1
    /\ UNCHANGED <<tables, variant, es, now, arrivals, raw, parsed, session, crashed, file>>

ClampNext == ClampGame \/ ClampCli

SpecClamp == ClampInit /\ [][ClampNext]_vars

(* C17: clamping a state that was just clamped changes nothing, whatever  *)
(* the state was before the first clamp, and a clamp changes no field      *)
(* other than the six dimensions.                                          *)
C17_IdempotentClamp ==
    [][last'.op = "clamp"
        => /\ last.op = "clamp" => Engine' = Engine
           /\ \A f \in (DOMAIN Engine) \ DimSet : Engine'[f] = Engine[f]]_vars

C17_Witness ==
    /\ variant = "cli"
    /\ last.op = "clamp"
    /\ steps = 2
    /\ cs.warmth = 5 * U
    /\ cs.tension = 0
    /\ cs.trust = 3
    /\ Len(cs.retraction_memory) = 1

(***************************************************************************)
(* SpecStore: the state file.  The game's engine applies events, saves,    *)
(* loads and rebuilds its state from its own record; the CLI runs its      *)
(* init, apply and query commands, each a process of its own.  The file    *)
(* is absent at first, or holds a record written by hand.                  *)
(***************************************************************************)
Text(record) == [exists |-> TRUE, text |-> Dumps(record, 0)]

(* a partial record *)
F_partial ==
    Text(JDict(<<Pair(Spell.warmth, JNum(2 * U)), Pair(Spell.trust, JNum(7 * U))>>))

(* keys neither class has, or only the CLI's *)
F_foreign ==
    Text(JDict(<<Pair(Spell.warmth, JNum(-3 * U)), Pair(Spell.mood, JNum(4 * U)),
                 Pair(Key.consecutive_days, JNum(2 * U))>>))

(* a key that names a method *)
F_method ==
    Text(JDict(<<Pair(Spell.tension, JNum(6 * U)), Pair(Spell.clamp, JNum(0))>>))

(* a key that names an attribute of every object *)
F_class ==
    Text(JDict(<<Pair(Spell.need, JNum(9 * U)), Pair(W_dunder_class, JNum(U)),
                 Pair(Spell.rhythm, JNum(U))>>))

HandFiles == {F_partial, F_foreign, F_method, F_class}

StoreEvents == {"retraction_seen", "confession", "normal_chat", "not_a_real_event"}

(* a retracted text with a quote, a line break and a backslash *)
QuotedContent == <<"a", "\"", "\n", "\\", "xi", "huan">>

StoreContents(e) == IF e = "retraction_seen" THEN {<<>>, QuotedContent} ELSE {<<>>}

InitArgs == {-2, 0, 99}

StoreOp(op, event, content, ret, raised, shadowed) ==
    [op |-> op, event |-> event, content |-> content, ret |-> ret,
     raised |-> raised, keys |-> {}, special_states |-> {},
     shadowed |-> shadowed]

StoreInit ==
    /\ variant \in {"game", "cli"}
    /\ file \in {NoFile} \cup HandFiles
    /\ es = EmotionalState
    /\ cs = CliEmotionalState
    /\ now = 1
    /\ steps = 0
    /\ last = NoOp
    /\ arrivals = <<>>
    /\ raw = <<>>
    /\ parsed = NotParsed
    /\ tables = Tables
    /\ session = InvisibleWallGame
    /\ crashed = "none"

GameRuns == variant = "game" /\ crashed = "none" /\ steps < MaxOps

CliRuns == variant = "cli" /\ steps < MaxOps

(* the engine's state and the exception after a call that returned r *)
GameRan(r, op, event, content) ==
    /\ es' = r.state
    /\ crashed' = r.raised
    /\ last' = StoreOp(op, event, content, "none", r.raised, r.state.shadowed)

(* apply_event(state, event, content) *)
StoreApply ==
    /\ GameRuns
    /\ \E e \in StoreEvents : \E c \in StoreContents(e) :
         GameRan(apply_event(es, e, c, now), "apply_event", e, c)
    /\ now' = now + 1
    /\ steps' = steps + 1
    /\ UNCHANGED <<tables, variant, cs, arrivals, raw, parsed, session, file>>

(* state.save(path) *)
StoreSave ==
    /\ GameRuns
    /\ file' = IF SaveRaises(es) THEN file ELSE save(es)
    /\ crashed' = IF SaveRaises(es) THEN "TypeError" ELSE "none"
    /\ last' = StoreOp("save", "", <<>>, "none", crashed', es.shadowed)
    /\ steps' = steps + 1
    /\ UNCHANGED <<tables, variant, es, cs, now, arrivals, raw, parsed, session>>

(* state = EmotionalState.load(path); the name keeps its object when the   *)
(* call raises                                                             *)
StoreLoad ==
    /\ GameRuns
    /\ GameRan(load(file), "load", "", <<>>)
    /\ steps' = steps + 1
    /\ UNCHANGED <<tables, variant, cs, now, arrivals, raw, parsed, session, file>>

(* state = EmotionalState.from_dict(state.to_dict()) *)
StoreRebuild ==
    /\ GameRuns
    /\ Spell.to_dict \notin es.shadowed
    /\ GameRan(from_dict(to_dict(es)), "rebuild", "", <<>>)
    /\ steps' = steps + 1
    /\ UNCHANGED <<tables, variant, cs, now, arrivals, raw, parsed, session, file>>

(* state_engine.py init --output path --warmth w --tension t *)
StoreCliInit ==
    /\ CliRuns
    /\ \E w \in InitArgs : \E t \in InitArgs :
         /\ cs' = main_init(w, t)
         /\ file' = save_state(main_init(w, t))
    /\ last' = StoreOp("init", "", <<>>, "none", "none", {})
    /\ steps' = steps + 1
    /\ UNCHANGED <<tables, variant, es, now, arrivals, raw, parsed, session, crashed>>

(* what a run of the apply command that ended as r leaves *)
CliRan(r, event, content) ==
    /\ cs' = r.state
    /\ file' = r.file
    /\ last' = StoreOp("apply", event, content, r.ret, r.raised, {})

(* state_engine.py apply --state path --event e [--content c] *)
StoreCliApply ==
    /\ CliRuns
    /\ \E e \in StoreEvents : \E c \in StoreContents(e) :
         CliRan(main_apply(file, e, c, now), e, c)
    /\ now' = now + 1
    /\ steps' = steps + 1
    /\ UNCHANGED <<tables, variant, es, arrivals, raw, parsed, session, crashed>>

CliQueried(loaded) ==
    /\ cs' = loaded.state
    /\ last' = StoreOp("query", "", <<>>, "none", loaded.raised, loaded.shadowed)

(* state_engine.py query --state path: lines 312-314 *)
StoreCliQuery ==
    /\ CliRuns
    /\ CliQueried(load_state(file))
    /\ steps' = steps + 1
    /\ UNCHANGED <<tables, variant, es, now, arrivals, raw, parsed, session, crashed, file>>

StoreNext ==
    \/ StoreApply
    \/ StoreSave
    \/ StoreLoad
    \/ StoreRebuild
    \/ StoreCliInit
    \/ StoreCliApply
    \/ StoreCliQuery

SpecStore == StoreInit /\ [][StoreNext]_vars

(* the fields of the game's dataclass, which its == compares *)
FieldNames == DimSet \cup {"retraction_memory", "last_interaction"}

SameFields(a, b) == \A f \in FieldNames : a[f] = b[f]

(* a state the engine itself can produce: dimensions in range, a list of   *)
(* retractions, a timestamp or none                                        *)
ValidState(s) ==
    /\ InRange(s)
    /\ s.retraction_memory.kind = "list"
    /\ s.last_interaction.kind \in {"none", "time"}

SameDimensionsAndMemory(a, b) ==
    /\ \A d \in DimSet : a[d] = b[d]
    /\ a.retraction_memory = b.retraction_memory

(* the last command wrote the state it held to the file *)
CliWrote ==
    /\ variant = "cli"
    /\ last.op = "init" \/ (last.op = "apply" /\ last.ret = "changes")
    /\ InRange(cs)

(* C18: a valid state rebuilt from its own record has the fields it had,   *)
(* and a state loaded from the file it was just saved to has the same six  *)
(* dimensions and the same remembered retractions, in both engines.        *)
C18_RoundTrip ==
    [][/\ (variant = "game" /\ ValidState(es) /\ last'.op = "rebuild")
            => (crashed' = "none" /\ SameFields(es', es))
       /\ (variant = "game" /\ ValidState(es) /\ last.op = "save"
           /\ last.raised = "none" /\ last'.op = "load")
            => (crashed' = "none" /\ SameDimensionsAndMemory(es', es))
       /\ (CliWrote /\ last'.op = "query")
            => (last'.raised = "none" /\ SameDimensionsAndMemory(cs', cs))]_vars

(* a state with a remembered retraction that holds a quote, a line break   *)
(* and a backslash was saved and has just been loaded again                *)
C18_Witness ==
    /\ variant = "game"
    /\ last.op = "load"
    /\ crashed = "none"
    /\ file = save(es)
    /\ Len(es.retraction_memory.items) = 1
    /\ es.retraction_memory.items[1].content = QuotedContent
    /\ es.tension = 4 * U

(* the name a field has in the record *)
FieldKey(f) == IF f \in DOMAIN Spell THEN Spell[f] ELSE Key[f]

(* the keys of the record in the file *)
FileKeys == {Loads(file.text).items[i].key : i \in 1..Len(Loads(file.text).items)}

Default == IF variant = "game" THEN EmotionalState ELSE CliEmotionalState

(* C19: a load never fails; from an absent file it gives the default       *)
(* state; a key that is not a field name changes nothing in the loaded     *)
(* object; a field the record does not name keeps its default.             *)
C19_LoadTolerant ==
    last.op \in {"load", "query"} =>
        /\ last.raised = "none"
        /\ last.shadowed = {}
        /\ ~file.exists => \A f \in DOMAIN Default : Engine[f] = Default[f]
        /\ file.exists =>
             \A f \in (DOMAIN Default) \ {"shadowed"} :
                 FieldKey(f) \notin FileKeys => Engine[f] = Default[f]

(* C20: the apply command leaves the file as it was when the event is      *)
(* unknown, and otherwise leaves in it the record of the state the event   *)
(* produced from the stored one.                                           *)
C20_ApplyWrites ==
    [][(variant = "cli" /\ last'.op = "apply") =>
          IF last'.event \notin DOMAIN CLI_TRANSITIONS
          THEN file' = file
          ELSE file' = save_state(cli_apply_event(load_state(file).state,
                                      last'.event, last'.content, now).state)]_vars

(***************************************************************************)
(* Spec: a session of the game.  The user types, retracts and sends; the   *)
(* text generator raises, answers without a message, or answers with one   *)
(* of the replies below.                                                   *)
(***************************************************************************)
UserInputs ==
    {<<" ">>,                               \* blank
     <<"h", "i">>,                          \* normal
     <<"xiang", "ni">>,                     \* ambiguous
     <<"wo", "xi", "huan", "ni">>}          \* confession

RetractedTexts == {<<"dui", "bu", "qi">>}

VisibleMs == {2999, 3000}

GenOutcomes ==
    {[kind |-> "raise", text |-> <<>>], [kind |-> "empty", text |-> <<>>]}
    \cup {[kind |-> "reply", text |-> t] : t \in ReplyTexts}

Init ==
    /\ es = EmotionalState
    /\ session = InvisibleWallGame
    /\ crashed = "none"
    /\ file = NoFile
    /\ last = NoTurn
    /\ now = 1
    /\ steps = 0
    /\ variant = "game"
    /\ cs = CliEmotionalState
    /\ arrivals = <<>>
    /\ raw = <<>>
    /\ parsed = NotParsed
    /\ tables = Tables

OutcomeMutKeepRetraction(r) ==
    /\ es' = r.state
    /\ session' = [r.sess EXCEPT !.last_retraction = session.last_retraction]
    /\ last' = r.turn
    /\ crashed' = r.escaped

(* r is what a call of send_message left behind *)
Outcome(r) ==
    /\ es' = r.state
    /\ session' = r.sess
    /\ last' = r.turn
    /\ crashed' = r.escaped

SendMessage ==
    /\ crashed = "none"
    /\ steps < MaxTurns
    /\ \E input \in UserInputs, draw \in BOOLEAN, gen \in GenOutcomes :
         Outcome(send_message(es, session, input, draw, gen, now))
    /\ now' = now + 1
    /\ steps' = steps + 1
    /\ UNCHANGED <<tables, variant, cs, arrivals, raw, parsed, file>>

StartTyping ==
    /\ crashed = "none"
    /\ steps < MaxTurns
    /\ \E text \in RetractedTexts : session' = start_typing(session, text)
    /\ UNCHANGED <<tables, variant, es, cs, now, steps, last, arrivals, raw, parsed, crashed, file>>

RetractMessage ==
    /\ crashed = "none"
    /\ steps < MaxTurns
    /\ \E ms \in VisibleMs : session' = retract_message(session, ms)
    /\ UNCHANGED <<tables, variant, es, cs, now, steps, last, arrivals, raw, parsed, crashed, file>>

Next == SendMessage \/ StartTyping \/ RetractMessage

Spec == Init /\ [][Next]_vars

(***************************************************************************)
(* Properties of the session                                               *)
(***************************************************************************)
DimKeys == {Spell[d] : d \in DimSet}

DimOf(key) == CHOOSE d \in DimSet : Spell[d] = key

Updates == last.controls.state_updates

ReplyProcessed == last.op = "turn" /\ last.gen = "reply"

(***************************************************************************)
(* SpecTurn: one call of send_message, step by step.  Each action is the   *)
(* code between two places where the call waits (time.sleep, the typing    *)
(* indicator, the streaming of the reply) or branches; last.pc is the      *)
(* place the call has reached and last.delays the waits it has made, in    *)
(* order.  now does not advance within the call.                           *)
(***************************************************************************)
TurnStates ==
    {EmotionalState,
     [EmotionalState EXCEPT !.warmth = 4 * U, !.tension = 6 * U]}

TurnRetractions ==
    {NoRetraction,
     [set |-> TRUE, content |-> <<"dui", "bu", "qi">>, visible_ms |-> 3000],
     [set |-> TRUE, content |-> <<"h", "i">>, visible_ms |-> 2999]}

TurnGens ==
    {[kind |-> "raise", text |-> <<>>], [kind |-> "empty", text |-> <<>>],
     [kind |-> "reply", text |-> R_plain], [kind |-> "reply", text |-> R_cold],
     [kind |-> "reply", text |-> R_mixed], [kind |-> "reply", text |-> R_fast]}

NoPlan ==
    [typing_delay_ms |-> 0, read_delay_ms |-> 0, pace_ms_per_char |-> 80,
     may_abort |-> FALSE, should_reply |-> TRUE]

Delay(kind, ms) == [kind |-> kind, ms |-> ms]

TurnInit ==
    /\ es \in TurnStates
    /\ session \in {[InvisibleWallGame EXCEPT !.last_retraction = r] :
                       r \in TurnRetractions}
    /\ last = [op |-> "turn", pc |-> "idle", input |-> <<>>, start |-> es,
               retraction |-> session.last_retraction, detected |-> "none",
               event |-> "none", plan |-> NoPlan, delays |-> <<>>,
               request |-> <<>>, raw |-> <<>>, ret |-> RetNone]
    /\ crashed = "none"
    /\ now = 1
    /\ steps = 0
    /\ variant = "game"
    /\ cs = CliEmotionalState
    /\ arrivals = <<>>
    /\ raw = <<>>
    /\ parsed = NotParsed
    /\ tables = Tables
    /\ file = NoFile

(* lines 588-593: what the classified input applies *)
ApplyDetected(state, detected, t) ==
    IF detected = "normal" THEN NoEvent(state)
    ELSE apply_event(state,
            IF detected = "ambiguous" THEN "said_ambiguous" ELSE "confession",
            <<>>, t)

CheckRetractionMutSkip(state, retraction, t) == NoEvent(state)

(* lines 604-607: a retraction that was visible for 3 s is applied *)
CheckRetraction(state, retraction, t) ==
    IF retraction.set /\ retraction.visible_ms >= 3000
    THEN apply_event(state, "retraction_seen", retraction.content, t)
    ELSE NoEvent(state)

(* the state r of an event application is stored; an exception ends the call *)
Committed(r, pc, detected, event) ==
    /\ es' = r.state
    /\ crashed' = r.raised
    /\ last' = [last EXCEPT !.pc = IF r.raised = "none" THEN pc ELSE "done",
                            !.detected = detected, !.event = event]

(* lines 585-593 *)
TurnDetect ==
    /\ last.pc = "idle"
    /\ \E input \in UserInputs :
         IF Strip(input) = <<>>
         THEN /\ last' = [last EXCEPT !.pc = "done", !.input = input]
              /\ UNCHANGED <<tables, es, crashed>>
         ELSE /\ es' = ApplyDetected(es, _detect_event_type(input), now).state
              /\ crashed' = ApplyDetected(es, _detect_event_type(input), now).raised
              /\ last' = [last EXCEPT
                            !.pc = IF crashed' = "none" THEN "detected" ELSE "done",
                            !.input = input,
                            !.detected = _detect_event_type(input),
                            !.event = _detect_event_type(input)]
    /\ UNCHANGED <<tables, variant, cs, now, steps, arrivals, raw, parsed, session, file>>

(* lines 595-601 *)
TurnAddUser ==
    /\ last.pc = "detected"
    /\ session' = [session EXCEPT
                     !.messages = Append(@, Msg("user", last.input)),
                     !.history = Append(@, Msg("user", last.input))]
    /\ last' = [last EXCEPT !.pc = "added"]
    /\ UNCHANGED <<tables, variant, es, cs, now, steps, arrivals, raw, parsed, crashed, file>>

(* lines 603-609 *)
TurnRetraction ==
    /\ last.pc = "added"
    /\ Committed(CheckRetraction(es, session.last_retraction, now), "checked",
                 last.detected,
                 IF session.last_retraction.set
                    /\ session.last_retraction.visible_ms >= 3000
                 THEN "retraction" ELSE last.event)
    /\ session' = [session EXCEPT !.last_retraction = NoRetraction]
    /\ UNCHANGED <<tables, variant, cs, now, steps, arrivals, raw, parsed, file>>

(* lines 611-612 *)
TurnPlan ==
    /\ last.pc = "checked"
    /\ \E d \in Draws :
         last' = [last EXCEPT !.pc = "planned",
                              !.plan = calculate_timing(es, last.event, d)]
    /\ UNCHANGED <<tables, variant, es, cs, now, steps, arrivals, raw, parsed, session,
                   crashed, file>>

(* lines 615-624: read, no reply *)
TurnNoReply ==
    /\ last.pc = "planned"
    /\ ~last.plan.should_reply
    /\ session' = [session EXCEPT
                     !.online_status = "idle",
                     !.messages = Append(@, Msg("assistant", <<"[", "read", "]">>))]
    /\ last' = [last EXCEPT !.pc = "done", !.ret = RetRead,
                            !.delays = Append(@, Delay("idle", 2000))]
    /\ UNCHANGED <<tables, variant, es, cs, now, steps, arrivals, raw, parsed, crashed, file>>

(* lines 626-628 *)
TurnReadDelay ==
    /\ last.pc = "planned"
    /\ last.plan.should_reply
    /\ last' = [last EXCEPT !.pc = "read",
                  !.delays = Append(@, Delay("read", Min(last.plan.read_delay_ms, 5000)))]
    /\ UNCHANGED <<tables, variant, es, cs, now, steps, arrivals, raw, parsed, session,
                   crashed, file>>

(* lines 630-632; _show_typing_indicator leaves the status online *)
TurnTyping ==
    /\ last.pc = "read"
    /\ session' = [session EXCEPT !.online_status = "online"]
    /\ last' = [last EXCEPT !.pc = "typed",
                  !.delays = Append(@, Delay("typing", Min(last.plan.typing_delay_ms, 10000)))]
    /\ UNCHANGED <<tables, variant, es, cs, now, steps, arrivals, raw, parsed, crashed, file>>

(* lines 634-640: the pause is random.randint(5, 15) seconds *)
TurnAbort ==
    /\ last.pc = "typed"
    /\ \E draw \in BOOLEAN : \E pick \in {0, 1} :
         last' = [last EXCEPT !.pc = "aborted",
                    !.delays = IF last.plan.may_abort /\ draw
                               THEN @ \o <<Delay("abort", 1000 * Randint(5, 15, pick)),
                                           Delay("typing", 2000)>>
                               ELSE @]
    /\ UNCHANGED <<tables, variant, es, cs, now, steps, arrivals, raw, parsed, session,
                   crashed, file>>

(* _get_pace_ms, lines 487-496 *)
_get_pace_ms(pace, pick) ==
    IF pace = Spell.slow THEN 150
    ELSE IF pace = Spell.fast THEN 40
    ELSE IF pace = Spell.hesitant THEN Randint(100, 200, pick)
    ELSE 80

(* self.history[-20:] *)
LastTwenty(lst) == SubSeq(lst, Max(1, Len(lst) - (HistoryWindow - 1)), Len(lst))

SystemPrompt == <<"system_prompt">>

(* the note of line 650, made of the first 20 characters of the content *)
Note(content) ==
    <<"[", "che", "hui", ":", "'">> \o SubSeq(content, 1, Min(20, Len(content)))
    \o <<".", ".", ".", "'", "]">>

(* lst.insert(-1, x): before the last element; at the front of an empty list *)
InsertBeforeLast(lst, x) ==
    IF lst = <<>> THEN <<x>>
    ELSE Append(SubSeq(lst, 1, Len(lst) - 1), x) \o <<lst[Len(lst)]>>

(* lines 642-651: the messages of the request *)
BuildMessages(sess, event_type) ==
    IF event_type = "retraction" /\ sess.last_retraction.set
    THEN InsertBeforeLast(<<Msg("system", SystemPrompt)>> \o LastTwenty(sess.history),
                          Msg("system", Note(sess.last_retraction.content)))
    ELSE <<Msg("system", SystemPrompt)>> \o LastTwenty(sess.history)

(* lines 677-680: controls["pace"] is a string; an empty one is false *)
StreamPace(plan, pace, pick) ==
    IF pace # <<>> THEN _get_pace_ms(pace, pick) ELSE plan.pace_ms_per_char

(* what the call a of the generator leaves: a reply that was handled is    *)
(* streamed (line 683)                                                     *)
Called(a, pick, request, text) ==
    /\ es' = a.state
    /\ session' = a.sess
    /\ last' = [last EXCEPT !.pc = "done", !.ret = a.ret,
                  !.request = request, !.raw = text,
                  !.delays = IF a.ret.kind = "text"
                             THEN Append(@, Delay("stream",
                                      StreamPace(last.plan, a.controls.pace, pick)))
                             ELSE @]

(* lines 642-704 *)
TurnCall ==
    /\ last.pc = "aborted"
    /\ \E gen \in TurnGens : \E pick \in {0, 1} :
         Called(CallApi(es, session, gen), pick,
                BuildMessages(session, last.event), gen.text)
    /\ UNCHANGED <<tables, variant, cs, now, steps, arrivals, raw, parsed, crashed, file>>

TurnNext ==
    \/ TurnDetect
    \/ TurnAddUser
    \/ TurnRetraction
    \/ TurnPlan
    \/ TurnNoReply
    \/ TurnReadDelay
    \/ TurnTyping
    \/ TurnAbort
    \/ TurnCall

SpecTurn == TurnInit /\ [][TurnNext]_vars

(* the state the turn's causing events leave: the event the input was      *)
(* classified as, then the retraction it saw, applied to the state the     *)
(* turn started in                                                         *)
AfterCauses ==
    LET detected == _detect_event_type(last.input)
        first == IF detected = "normal" THEN last.start
                 ELSE apply_event(last.start,
                        IF detected = "ambiguous" THEN "said_ambiguous" ELSE "confession",
                        <<>>, now).state
    IN  IF last.retraction.set /\ last.retraction.visible_ms >= 3000
        THEN apply_event(first, "retraction_seen", last.retraction.content, now).state
        ELSE first

(* C21: whenever the turn waits (the idle pause, the read delay, the       *)
(* typing indicator, the abort pause, the streaming of the reply), the     *)
(* store already holds the state all the turn's causing events leave.      *)
C21_DelaysAfterCommit ==
    [][Len(last'.delays) > Len(last.delays) => es = AfterCauses]_vars

(* a confession sent after a seen retraction: both applied, then the read  *)
(* delay and the typing indicator                                          *)
C21_Witness ==
    /\ last.pc = "typed"
    /\ last.detected = "confession"
    /\ last.event = "retraction"
    /\ last.start = EmotionalState
    /\ Len(last.delays) = 2
    /\ last.delays[1].kind = "read"
    /\ last.delays[2].kind = "typing"
    /\ es.tension = 9 * U
    /\ Len(es.retraction_memory.items) = 1

(* C31: the request of a turn whose event is a seen retraction holds, just *)
(* before its last message, the system note with the retracted content.   *)
C31_RetractionInjected ==
    (last.pc = "done" /\ last.event = "retraction" /\ last.request # <<>>)
        => /\ Len(last.request) >= 2
           /\ last.request[Len(last.request) - 1]
                 = Msg("system", Note(last.retraction.content))

(* C32: a reply without a pace tag is streamed at the pace of the turn's   *)
(* timing plan.                                                            *)
C32_PlanPaceKept ==
    (/\ last.pc = "done"
     /\ last.ret.kind = "text"
     /\ ~Search(PACE_PATTERN, last.raw).found)
        => last.delays[Len(last.delays)] = Delay("stream", last.plan.pace_ms_per_char)

(* C29: from the default state, an input classified as confession leaves   *)
(* tension at 5, and the plan computed for the confession has a typing     *)
(* delay of at least 15000.                                                *)
C29_ConfessionScenario ==
    (/\ last.pc = "planned"
     /\ last.start = EmotionalState
     /\ last.detected = "confession"
     /\ last.event = "confession")
        => (es.tension = 5 * U /\ last.plan.typing_delay_ms >= 15000)

C29_Witness ==
    /\ last.pc = "planned"
    /\ last.start = EmotionalState
    /\ last.input = <<"wo", "xi", "huan", "ni">>
    /\ last.event = "confession"
    /\ es.tension = 5 * U
    /\ last.plan.typing_delay_ms = 19000

(* the state the events of a turn leave: the event the input is classified *)
(* as, then the pending retraction if it was visible for 3 s                *)
Causes(state, input, retraction, t) ==
    CheckRetraction(ApplyDetected(state, _detect_event_type(input), t).state,
                    retraction, t).state

(* a call of send_message that took its input and returned *)
TurnTaken == steps' = steps + 1 /\ last'.op = "turn"

(* C33: a turn consumes the pending retraction: it applies retraction_seen *)
(* once if the retraction was visible for at least 3000 ms and not at all   *)
(* if it was visible for less, and it leaves no retraction pending, so no   *)
(* later turn applies it again.  (A blank input is turned away at line 585  *)
(* before the turn starts.)                                                 *)
C33_RetractionOnce ==
    [][TurnTaken =>
         /\ session'.last_retraction = NoRetraction
         /\ \E input \in UserInputs :
              /\ Strip(input) # <<>>
              /\ last'.committed = Causes(es, input, session.last_retraction, now)]_vars

(* the second turn after a first one that applied the retraction *)
C33_Witness ==
    /\ steps = 2
    /\ last.op = "turn"
    /\ last.event = "normal"
    /\ session.last_retraction = NoRetraction
    /\ Len(es.retraction_memory.items) = 1
    /\ es.tension = 4 * U

(***************************************************************************)
(* SpecQuiet: a session of the game in which no reply carries a            *)
(* state-update directive: the generator fails, answers nothing, or        *)
(* answers a text with at most a pace tag.                                 *)
(***************************************************************************)
QuietGens ==
    {[kind |-> "raise", text |-> <<>>], [kind |-> "empty", text |-> <<>>],
     [kind |-> "reply", text |-> R_plain], [kind |-> "reply", text |-> R_fast]}

(* send_message(user_input) *)
QuietSend ==
    /\ crashed = "none"
    /\ steps < MaxTurns
    /\ \E input \in UserInputs, draw \in BOOLEAN, gen \in QuietGens :
         Outcome(send_message(es, session, input, draw, gen, now))
    /\ now' = now + 1
    /\ steps' = steps + 1
    /\ UNCHANGED <<tables, variant, cs, arrivals, raw, parsed, file>>

QuietNext == QuietSend \/ StartTyping \/ RetractMessage

SpecQuiet == Init /\ [][QuietNext]_vars

(* the plan line 612 computes in a turn, for the draws d: the delay, the   *)
(* pace and may_abort are the ones lines 189-192 draw                      *)
OverridePlan(turn, d) ==
    LET plan == calculate_timing(turn.committed, turn.event, d)
    IN  /\ plan.typing_delay_ms = Randint(2000, 30000, d.override)
        /\ plan.pace_ms_per_char = Randint(50, 200, d.pace)
        /\ plan.may_abort = d.abort

(* C34: when no reply carries a state-update directive, tension never      *)
(* decreases and the five other dimensions keep their initial values;      *)
(* once tension is above 7, the plan of every later turn is the tension    *)
(* override's.                                                             *)
C34_TensionOnlyRises ==
    [][/\ es'.tension >= es.tension
       /\ \A dim \in DimSet \ {"tension"} : es'[dim] = EmotionalState[dim]
       /\ (es.tension > 7 * U /\ last'.op = "turn")
            => \A d \in Draws : OverridePlan(last', d)]_vars

(* a plain turn after the turn that took tension to 9 *)
C34_Witness ==
    /\ steps = 2
    /\ last.op = "turn"
    /\ last.event = "normal"
    /\ last.committed.tension = 9 * U
    /\ es.tension = 9 * U
    /\ es.warmth = 0

(* C35: apply_event leaves the transition tables as the modules define     *)
(* them, whatever events were applied; a retraction_seen whose content     *)
(* holds an emotional keyword therefore adds 4 to tension every time, the   *)
(* n-th as the first.                                                      *)
C35_TableUntouched ==
    /\ [](tables = Tables)
    /\ [][(/\ last'.op = "apply_event"
           /\ last'.event = "retraction_seen"
           /\ AnyEmotionalKeyword(last'.content)
           /\ last'.ret = "changes")
            => /\ variant = "game" =>
                    es'.tension = ClampDim("tension", PyInt(es.tension + 4 * U))
               /\ variant = "cli" =>
                    cs'.tension = ClampDim("tension", cs.tension + 4 * U)]_vars

(* the second keyword retraction in a row took tension from 4 to 8 *)
C35_Witness ==
    /\ variant = "game"
    /\ arrivals = <<<<"dui", "bu", "qi">>, <<"dui", "bu", "qi">>>>
    /\ steps = 2
    /\ es.tension = 8 * U
    /\ tables = Tables

(* C36: the state the CLI's init writes, and the state a load returns (the  *)
(* game's load, the CLI's load_state), has its six dimensions in range.    *)
C36_PersistedInRange ==
    /\ (last.op \in {"init", "query"} /\ last.raised = "none") => InRange(cs)
    /\ (last.op = "load" /\ last.raised = "none") => InRange(es)

(***************************************************************************)
(* SpecPair: the two engines side by side.  Both start from the same       *)
(* in-range integer state and are given the same events, each registered   *)
(* in both tables, with the same content.                                  *)
(***************************************************************************)
CommonEvents == (DOMAIN TRANSITIONS) \cap (DOMAIN CLI_TRANSITIONS)

PairTensions == {0, 3 * U}

PairInit ==
    /\ variant = "both"
    /\ \E t \in PairTensions :
         /\ es = [EmotionalState EXCEPT !.tension = t]
         /\ cs = [CliEmotionalState EXCEPT !.tension = t]
    /\ now = 1
    /\ steps = 0
    /\ last = NoOp
    /\ arrivals = <<>>
    /\ raw = <<>>
    /\ parsed = NotParsed
    /\ tables = Tables
    /\ session = InvisibleWallGame
    /\ crashed = "none"
    /\ file = NoFile

(* apply_event(state, e, c) of state.py and of state_engine.py *)
PairStep ==
    /\ steps < MaxPairSteps
    /\ \E e \in CommonEvents : \E c \in ContentsFor(e) :
         /\ es' = ApplyEventIn(tables.game, es, e, c, now).state
         /\ cs' = CliApplyEventIn(tables.cli, cs, e, c, now).state
         /\ tables' = [game |-> TableAfter(tables.game, e, c),
                       cli |-> TableAfter(tables.cli, e, c)]
         /\ last' = [NoOp EXCEPT !.op = "apply_event", !.event = e, !.content = c]
    /\ now' = now + 1
    /\ steps' = steps + 1
    /\ UNCHANGED <<variant, arrivals, raw, parsed, session, crashed, file>>

SpecPair == PairInit /\ [][PairStep]_vars

(* C37: after every step the two engines hold the same six dimension       *)
(* values.                                                                 *)
C37_VariantsAgree == \A d \in DimSet : es[d] = cs[d]

(***************************************************************************)
(* SpecHistory: a long session.  Every turn is a whole call of             *)
(* send_message; the input is blank or a plain text, and the generator     *)
(* answers with a plain reply or with nothing.                              *)
(***************************************************************************)
HistoryInputs == {<<" ">>, <<"h", "i">>}

HistoryGens ==
    {[kind |-> "empty", text |-> <<>>], [kind |-> "reply", text |-> R_plain]}

HistoryInit ==
    /\ es = EmotionalState
    /\ session = InvisibleWallGame
    /\ last = NoTurn
    /\ crashed = "none"
    /\ now = 1
    /\ steps = 0
    /\ variant = "game"
    /\ cs = CliEmotionalState
    /\ arrivals = <<>>
    /\ raw = <<>>
    /\ parsed = NotParsed
    /\ tables = Tables
    /\ file = NoFile

(* send_message(user_input) *)
HistoryTurn ==
    /\ crashed = "none"
    /\ steps < MaxHistoryTurns
    /\ \E input \in HistoryInputs, draw \in BOOLEAN, gen \in HistoryGens :
         Outcome(send_message(es, session, input, draw, gen, now))
    /\ now' = now + 1
    /\ steps' = steps + 1
    /\ UNCHANGED <<tables, variant, cs, arrivals, raw, parsed, file>>

SpecHistory == HistoryInit /\ [][HistoryTurn]_vars

(* C22: the stored history never holds more than the 20 entries the        *)
(* request to the generator is built from.                                 *)
C22_HistoryCapped == Len(session.history) <= HistoryWindow

(* C1: after every operation of a session (event applications and         *)
(* directive overrides alike) warmth is in [-5,5] and the five other      *)
(* dimensions are in [0,10].                                              *)
C1_ClampInvariant == InRange(es)

(* C3: applying the directives of a reply writes only to the six          *)
(* dimensions: the other fields of the store are as the event application *)
(* left them, and a reply without a dimension key leaves the whole store  *)
(* as it was.                                                             *)
C3_DirectivesWriteOnlyDimensions ==
    ReplyProcessed =>
        /\ es.retraction_memory = last.committed.retraction_memory
        /\ es.last_interaction = last.committed.last_interaction
        /\ es.shadowed = last.committed.shadowed
        /\ (\A i \in 1..Len(Updates) : Updates[i].key \notin DimKeys)
              => es = last.committed

(* C4: no exception ever escapes send_message. *)
C4_NoEscape == crashed = "none"

C8_DirectiveOverwrite ==
    ReplyProcessed =>
        \A i \in 1..Len(Updates) :
            Updates[i].key \in DimKeys =>
                es[DimOf(Updates[i].key)]
                    = ClampDim(DimOf(Updates[i].key), Updates[i].val * U)

====
